---- MODULE Spec2Model ----
(***************************************************************************)
(* A model of the per-frame physics step of phixgo (src/unnamed/part_001): *)
(* Game.Update, resolveCollisionCustom, applyWaterForces, applyGasForces   *)
(* and the spatialHash grids.                                              *)
(*                                                                         *)
(* Numbers.  The program computes in float32.  The model computes in      *)
(* fixed point: a float32 value v is the integer v * Unit, so one pixel   *)
(* is Unit = 1000 and penetrationSlop (0.001) is 1.  Products and         *)
(* quotients are cut toward zero (Mul, Div) and a square root is rounded  *)
(* up (WSqrt), so a computed length is never shorter and a computed       *)
(* quotient by it never larger than the real number the float32 code      *)
(* approximates; on inputs whose results lie on the grid the arithmetic   *)
(* is exact.  A sum of two squares does not fit a machine integer of the  *)
(* checker, so squares are kept as three digits in base WBase (W...).     *)
(***************************************************************************)
EXTENDS Integers, Sequences, FiniteSets, TLC

VARIABLES
    balls,              \* var balls []Ball
    settings,           \* Game.settings
    showMenu,           \* Game.showMenu
    selectedOption,     \* Game.selectedOption
    prevEscPressed,     \* Game.prevEscPressed
    prevUpPressed,      \* Game.prevUpPressed
    prevDownPressed,    \* Game.prevDownPressed
    moveAttractDistance, \* var moveAttractDistance float64
    spawnClusterCount,  \* Game.spawnClusterCount
    ballsize,           \* var ballsize float64
    ballSpawnTimer,     \* var ballSpawnTimer int
    currentShape,       \* var currentShape ShapeType
    input,              \* the keys, buttons and cursor Update reads this frame
    pc,                 \* the position inside Update ("idle": between frames)
    sweeps,             \* collision sweeps run so far in this frame
    anyResolved,        \* anyResolved of the last sweep of this frame
    frame,              \* frames run so far
    call                \* the pending or finished call of a pure function

vars == <<balls, settings, showMenu, selectedOption, prevEscPressed,
          prevUpPressed, prevDownPressed, moveAttractDistance, spawnClusterCount, ballsize, ballSpawnTimer, currentShape, input,
          pc, sweeps, anyResolved, frame, call>>

---------------------------------------------------------------------------
(* Fixed-point arithmetic *)

Unit == 1000

Abs(x) == IF x < 0 THEN -x ELSE x

Sign(x) == IF x < 0 THEN -1 ELSE IF x > 0 THEN 1 ELSE 0

\* a / b cut toward zero, b > 0
TDiv(a, b) == IF a >= 0 THEN a \div b ELSE -((-a) \div b)

\* float32 product and quotient of two fixed-point values
Mul(a, b) == TDiv(a * b, Unit)

Div(a, b) == IF b > 0 THEN TDiv(a * Unit, b) ELSE -TDiv(a * Unit, -b)

Min(a, b) == IF a < b THEN a ELSE b

Max(a, b) == IF a > b THEN a ELSE b

\* Wide naturals: <<d2, d1, d0>> stands for d2*WBase^2 + d1*WBase + d0.
WBase == 2048

WNorm(p) ==
    LET d1 == p[2] + (p[3] \div WBase)
    IN  <<p[1] + (d1 \div WBase), d1 % WBase, p[3] % WBase>>

\* x * x
WSq(x) ==
    LET h == Abs(x) \div WBase
        l == Abs(x) % WBase
    IN  WNorm(<<h * h, 2 * h * l, l * l>>)

WAdd(p, q) == WNorm(<<p[1] + q[1], p[2] + q[2], p[3] + q[3]>>)

WLess(p, q) ==
    \/ p[1] < q[1]
    \/ p[1] = q[1] /\ p[2] < q[2]
    \/ p[1] = q[1] /\ p[2] = q[2] /\ p[3] < q[3]

WZero == <<0, 0, 0>>

\* the least d in lo..hi with p <= d*d, given p <= hi*hi
RECURSIVE WSqrtIn(_, _, _)
WSqrtIn(p, lo, hi) ==
    IF lo >= hi THEN hi
    ELSE LET mid == (lo + hi) \div 2
         IN  IF WLess(WSq(mid), p) THEN WSqrtIn(p, mid + 1, hi)
             ELSE WSqrtIn(p, lo, mid)

\* math.Sqrt of a wide square, rounded up to the grid
WSqrt(p) == WSqrtIn(p, 0, 4 * WBase * WBase - 1)

---------------------------------------------------------------------------
(* Program constants (src/unnamed/part_001:23-50), in fixed point *)

screenPadding == 50 * Unit

\* 0.0001 lies below the grid: it is the least positive grid value
minimumSeparation == 1

minSpawnRadius == 4 * Unit

maxSpawnRadius == 120 * Unit

ballSpawnStep == Unit \div 2

maxCollisionSolves == 4

penetrationSlop == 1

waterRestDistance == 12 * Unit

waterInteraction == Mul(waterRestDistance, 1800)

waterViscosity == 550

waterSpawnClampMin == 3 * Unit

waterSpawnClampMax == 20 * Unit

waterRestDensity == 4500

waterPressureStiff == 320

waterNearStiff == 1100

waterBoundaryPush == 220

waterBoundaryDrag == 50

gasRestDistance == 16 * Unit

gasInteraction == Mul(gasRestDistance, 1500)

gasPressure == 120

gasViscosity == 80

gasBuoyancy == 250

gasDrag == 50

gasSpawnClampMin == 4 * Unit

gasSpawnClampMax == 30 * Unit

gasBoundaryPush == 120

gasBoundaryDrag == 40

\* ebiten.ScreenSizeInFullscreen(), in pixels
screenWidth == 1920

screenHeight == 1080

defaultSettings ==
    [gravity |-> 200, maxSpeed |-> 10 * Unit, moveAwayDistance |-> 100 * Unit,
     moveAwayStrength |-> 5 * Unit, moveAttractStrength |-> 10 * Unit,
     groundRestitution |-> 650, collisionRestitution |-> 850, airDrag |-> 20,
     groundFriction |-> 800, hasTopBarrier |-> FALSE]

Materials == {"solid", "water", "gas", "static"}

Shapes == {"circle", "square", "triangle", "water", "gas", "static"}

createPos(x, y) == [x |-> x, y |-> y]

createBall(pos, r, shape) ==
    [pos |-> pos, velocity |-> [vx |-> 0, vy |-> 0], radius |-> r,
     shape |-> shape, material |-> "solid"]

createWaterParticle(pos, r) ==
    [createBall(pos, r, "water") EXCEPT !.material = "water"]

createGasParticle(pos, r) ==
    [createBall(pos, r, "gas") EXCEPT !.material = "gas"]

createStaticSolid(pos, r, shape) ==
    [createBall(pos, r, shape) EXCEPT !.material = "static"]

\* mobilityFor with no case for the static material
mobilityForAny(material) == Unit

mobilityFor(material) == IF material = "static" THEN 0 ELSE Unit

---------------------------------------------------------------------------
(* resolveCollisionCustom (src/unnamed/part_001:286-380) *)

\* lines 287-309: the contact of two balls, or no contact.  distSq below
\* minimumSeparation^2 is distSq = 0 on the grid.
Contact(b1, b2) ==
    LET dx == b2.pos.x - b1.pos.x
        dy == b2.pos.y - b1.pos.y
        combinedRadius == b1.radius + b2.radius
        distSq == WAdd(WSq(dx), WSq(dy))
        distance == IF distSq = WZero THEN minimumSeparation ELSE WSqrt(distSq)
        nx0 == Div(dx, distance)
        ny0 == Div(dy, distance)
        nx == IF nx0 = 0 /\ ny0 = 0 THEN Unit ELSE nx0
        overlap == combinedRadius - distance
    IN  IF ~WLess(distSq, WSq(combinedRadius)) THEN [hit |-> FALSE]
        ELSE IF overlap <= 0 THEN [hit |-> FALSE]
        ELSE [hit |-> TRUE, nx |-> nx, ny |-> ny0, overlap |-> overlap]

\* Shifted with each ball moved by the whole separation
ShiftedWhole(b1, b2, c) ==
    LET separation == c.overlap + penetrationSlop
        p1 == IF mobilityFor(b1.material) > 0
              THEN [x |-> b1.pos.x - Mul(c.nx, separation), y |-> b1.pos.y - Mul(c.ny, separation)]
              ELSE b1.pos
        p2 == IF mobilityFor(b2.material) > 0
              THEN [x |-> b2.pos.x + Mul(c.nx, separation), y |-> b2.pos.y + Mul(c.ny, separation)]
              ELSE b2.pos
    IN  <<[b1 EXCEPT !.pos = p1], [b2 EXCEPT !.pos = p2]>>

\* Shifted with only 80% of the overlap corrected
ShiftedPercent(b1, b2, c) ==
    LET mob1 == mobilityFor(b1.material)
        mob2 == mobilityFor(b2.material)
        separation == Mul(c.overlap, 800)
        shift1 == Mul(separation, Div(mob1, mob1 + mob2))
        shift2 == Mul(separation, Div(mob2, mob1 + mob2))
        p1 == IF mob1 > 0
              THEN [x |-> b1.pos.x - Mul(c.nx, shift1), y |-> b1.pos.y - Mul(c.ny, shift1)]
              ELSE b1.pos
        p2 == IF mob2 > 0
              THEN [x |-> b2.pos.x + Mul(c.nx, shift2), y |-> b2.pos.y + Mul(c.ny, shift2)]
              ELSE b2.pos
    IN  <<[b1 EXCEPT !.pos = p1], [b2 EXCEPT !.pos = p2]>>

\* lines 311-331: the positional correction
Shifted(b1, b2, c) ==
    LET mob1 == mobilityFor(b1.material)
        mob2 == mobilityFor(b2.material)
        separation == c.overlap + penetrationSlop
        weightSum == mob1 + mob2
        shift1 == Mul(separation, Div(mob1, weightSum))
        shift2 == Mul(separation, Div(mob2, weightSum))
        p1 == IF mob1 > 0
              THEN [x |-> b1.pos.x - Mul(c.nx, shift1), y |-> b1.pos.y - Mul(c.ny, shift1)]
              ELSE b1.pos
        p2 == IF mob2 > 0
              THEN [x |-> b2.pos.x + Mul(c.nx, shift2), y |-> b2.pos.y + Mul(c.ny, shift2)]
              ELSE b2.pos
    IN  <<[b1 EXCEPT !.pos = p1], [b2 EXCEPT !.pos = p2]>>

\* Impulsed without the return on a separating pair
ImpulsedAlways(b1, b2, c, collisionRestitution, friction) ==
    LET rvx == b2.velocity.vx - b1.velocity.vx
        rvy == b2.velocity.vy - b1.velocity.vy
        velAlongNormal == Mul(rvx, c.nx) + Mul(rvy, c.ny)
        invMass1 == mobilityFor(b1.material)
        invMass2 == mobilityFor(b2.material)
        massSum == invMass1 + invMass2
        impulseScalar == Div(-Mul(Unit + collisionRestitution, velAlongNormal), massSum)
        impulseX == Mul(impulseScalar, c.nx)
        impulseY == Mul(impulseScalar, c.ny)
        v1 == IF invMass1 > 0
              THEN [vx |-> b1.velocity.vx - Mul(impulseX, invMass1),
                    vy |-> b1.velocity.vy - Mul(impulseY, invMass1)]
              ELSE b1.velocity
        v2 == IF invMass2 > 0
              THEN [vx |-> b2.velocity.vx + Mul(impulseX, invMass2),
                    vy |-> b2.velocity.vy + Mul(impulseY, invMass2)]
              ELSE b2.velocity
    IN  <<[b1 EXCEPT !.velocity = v1], [b2 EXCEPT !.velocity = v2]>>

\* lines 333-378: the normal impulse and the tangential friction
Impulsed(b1, b2, c, collisionRestitution, friction) ==
    LET rvx == b2.velocity.vx - b1.velocity.vx
        rvy == b2.velocity.vy - b1.velocity.vy
        velAlongNormal == Mul(rvx, c.nx) + Mul(rvy, c.ny)
        invMass1 == mobilityFor(b1.material)
        invMass2 == mobilityFor(b2.material)
        massSum == invMass1 + invMass2
        impulseScalar == Div(-Mul(Unit + collisionRestitution, velAlongNormal), massSum)
        impulseX == Mul(impulseScalar, c.nx)
        impulseY == Mul(impulseScalar, c.ny)
        tx == -c.ny
        ty == c.nx
        relTangential == Mul(rvx, tx) + Mul(rvy, ty)
        frictionScalar == Div(Mul(relTangential, friction), massSum)
        fx == IF friction # 0 THEN Mul(tx, frictionScalar) ELSE 0
        fy == IF friction # 0 THEN Mul(ty, frictionScalar) ELSE 0
        v1 == IF invMass1 > 0
              THEN [vx |-> b1.velocity.vx - Mul(impulseX, invMass1) + Mul(fx, invMass1),
                    vy |-> b1.velocity.vy - Mul(impulseY, invMass1) + Mul(fy, invMass1)]
              ELSE b1.velocity
        v2 == IF invMass2 > 0
              THEN [vx |-> b2.velocity.vx + Mul(impulseX, invMass2) - Mul(fx, invMass2),
                    vy |-> b2.velocity.vy + Mul(impulseY, invMass2) - Mul(fy, invMass2)]
              ELSE b2.velocity
    IN  IF velAlongNormal > 0 THEN <<b1, b2>>
        ELSE <<[b1 EXCEPT !.velocity = v1], [b2 EXCEPT !.velocity = v2]>>

\* line 379: the pair as the call leaves it, and true
Resolved(pair) == [b1 |-> pair[1], b2 |-> pair[2], resolved |-> TRUE]

\* lines 311-379 on a pair in contact c
Collided(b1, b2, c, collisionRestitution, friction) ==
    IF mobilityFor(b1.material) + mobilityFor(b2.material) = 0
    THEN Resolved(<<b1, b2>>)
    ELSE Resolved(Impulsed(Shifted(b1, b2, c)[1], Shifted(b1, b2, c)[2], c,
                           collisionRestitution, friction))

\* lines 287-309: the early returns, on the contact c of the pair
Settled(b1, b2, c, collisionRestitution, friction) ==
    IF ~c.hit THEN [b1 |-> b1, b2 |-> b2, resolved |-> FALSE]
    ELSE Collided(b1, b2, c, collisionRestitution, friction)

resolveCollisionCustom(b1, b2, collisionRestitution, friction) ==
    Settled(b1, b2, Contact(b1, b2), collisionRestitution, friction)

resolveCollision(b1, b2, collisionRestitution) ==
    resolveCollisionCustom(b1, b2, collisionRestitution, Unit \div 2)

---------------------------------------------------------------------------
(* The state after NewGame (src/unnamed/part_001:118-129, 432-438) *)

\* One frame's reading of the keyboard, the wheel, the buttons and the cursor
\* (x, y in pixels); key is the number key held, 0 for none.
NoInput ==
    [esc |-> FALSE, up |-> FALSE, down |-> FALSE, shift |-> FALSE, wheel |-> 0,
     key |-> 0, left |-> FALSE, right |-> FALSE, x |-> 0, y |-> 0]

NoCall == [fn |-> "none"]

NewGame ==
    /\ balls = <<>>
    /\ settings = defaultSettings
    /\ showMenu = FALSE
    /\ selectedOption = 0
    /\ prevEscPressed = FALSE
    /\ prevUpPressed = FALSE
    /\ prevDownPressed = FALSE
    /\ moveAttractDistance = 200 * Unit
    /\ spawnClusterCount = 3
    /\ ballsize = 10 * Unit
    /\ ballSpawnTimer = 0
    /\ currentShape = "circle"
    /\ input = NoInput
    /\ pc = "idle"
    /\ sweeps = 0
    /\ anyResolved = FALSE
    /\ frame = 0

gameVars == <<balls, settings, showMenu, selectedOption, prevEscPressed,
              prevUpPressed, prevDownPressed, moveAttractDistance, spawnClusterCount, ballsize, ballSpawnTimer, currentShape,
              input, pc, sweeps, anyResolved, frame>>

---------------------------------------------------------------------------
(* resolveCollisionCustom as a function of its arguments *)

\* Displacements b2 - b1 whose length and direction lie on the grid
\* (axis-parallel and 3-4-5), in thousandths of a pixel.
ResolveOffsets ==
    {<<0, 0>>, <<15000, 0>>, <<0, 15000>>, <<9000, 12000>>, <<-12000, -9000>>,
     <<15001, 0>>, <<0, -14999>>, <<20000, 0>>, <<12000, 16000>>,
     <<3000, -4000>>, <<-30000, 0>>}

ResolveRadii == {4 * Unit, 10 * Unit}

ResolveVelocities ==
    {<<0, 0>>, <<3000, 4000>>, <<-3000, -4000>>, <<4000, -3000>>}

ResolveMaterials == {"solid", "water", "static"}

ResolveCoefficients == {<<850, 500>>, <<0, 0>>}

ResolveArgs ==
    {[fn |-> "resolve", done |-> FALSE,
      b1 |-> [pos |-> createPos(500 * Unit, 500 * Unit),
              velocity |-> [vx |-> v1[1], vy |-> v1[2]],
              radius |-> r1, shape |-> "circle", material |-> m1],
      b2 |-> [pos |-> createPos(500 * Unit + d[1], 500 * Unit + d[2]),
              velocity |-> [vx |-> v2[1], vy |-> v2[2]],
              radius |-> r2, shape |-> "circle", material |-> m2],
      collisionRestitution |-> k[1], friction |-> k[2]] :
        d \in ResolveOffsets, r1 \in ResolveRadii, r2 \in ResolveRadii,
        v1 \in ResolveVelocities, v2 \in ResolveVelocities,
        m1 \in ResolveMaterials, m2 \in ResolveMaterials,
        k \in ResolveCoefficients}

InitResolve == NewGame /\ call \in ResolveArgs

ResolveCall ==
    /\ call.fn = "resolve" /\ ~call.done
    /\ call' = [call EXCEPT !.done = TRUE] @@
               [out |-> resolveCollisionCustom(call.b1, call.b2,
                            call.collisionRestitution, call.friction)]
    /\ UNCHANGED gameVars

SpecResolve == InitResolve /\ [][ResolveCall]_vars

\* the squared centre distance of two balls
DistSq(a, b) == WAdd(WSq(b.pos.x - a.pos.x), WSq(b.pos.y - a.pos.y))

Overlapping(a, b) == WLess(DistSq(a, b), WSq(a.radius + b.radius))

Mobile(b) == b.material # "static"

ResolveDone == call.fn = "resolve" /\ call.done

\* C5 (as stated): two overlapping mobile particles of the same material are
\* never left further apart than radius1 + radius2 by one call.
C5_NoOvershootPastContact ==
    (ResolveDone /\ Overlapping(call.b1, call.b2) /\ Mobile(call.b1)
       /\ call.b1.material = call.b2.material)
    => ~WLess(WSq(call.b1.radius + call.b2.radius), DistSq(call.out.b1, call.out.b2))

\* C5 (amended): two overlapping mobile particles of the same material are
\* never left further apart than radius1 + radius2 + penetrationSlop by one
\* call of resolveCollisionCustom.
C5_NoOvershootPastSlop ==
    (ResolveDone /\ Overlapping(call.b1, call.b2) /\ Mobile(call.b1)
       /\ call.b1.material = call.b2.material)
    => ~WLess(WSq(call.b1.radius + call.b2.radius + 1), DistSq(call.out.b1, call.out.b2))

\* C5 witness: a call on two overlapping solids has moved them exactly
\* penetrationSlop past contact.
C5_Witness ==
    /\ ResolveDone /\ Overlapping(call.b1, call.b2)
    /\ call.b1.material = "solid" /\ call.b2.material = "solid"
    /\ DistSq(call.out.b1, call.out.b2) = WSq(call.b1.radius + call.b2.radius + 1)

---------------------------------------------------------------------------
(* spatialHash (src/unnamed/part_001:193-256) *)

\* uint32(i): the low 32 bits of i, as two 16-bit halves
U32(i) == <<(i \div 65536) % 65536, i % 65536>>

\* a key of the low 16 bits of each coordinate only
hashKeyLow(ix, iy) == <<<<0, ix % 65536>>, <<0, iy % 65536>>>>

\* (int64(uint32(ix)) << 32) | int64(uint32(iy)): the 64 bits of the key as
\* its high and its low 32-bit word
hashKey(ix, iy) == <<U32(ix), U32(iy)>>

\* A grid is its cell size, its buckets (a map from keys to slices of
\* indices) and its usedKeys.
newSpatialHash(cellSize) ==
    [cellSize |-> IF cellSize <= 0 THEN Unit ELSE cellSize,
     buckets |-> [key \in {} |-> <<>>],
     usedKeys |-> <<>>]

\* h.buckets[key]: a key outside the map reads as the nil slice
Bucket(h, key) == IF key \in DOMAIN h.buckets THEN h.buckets[key] ELSE <<>>

Used(h, key) == \E n \in 1..Len(h.usedKeys) : h.usedKeys[n] = key

\* Clear without the loop that empties the buckets of usedKeys
ClearKeysOnly(h) == [h EXCEPT !.usedKeys = <<>>]

Clear(h) ==
    [h EXCEPT !.buckets = [key \in DOMAIN h.buckets \cup {h.usedKeys[n] : n \in 1..Len(h.usedKeys)} |->
                              IF Used(h, key) THEN <<>> ELSE h.buckets[key]],
              !.usedKeys = <<>>]

\* lines 229-237: the index appended to the bucket of key, and key to
\* usedKeys when the bucket was empty
Stored(h, key, index) ==
    [h EXCEPT !.buckets = [k \in DOMAIN h.buckets \cup {key} |->
                              IF k = key THEN Append(Bucket(h, key), index)
                              ELSE h.buckets[k]],
              !.usedKeys = IF Len(Bucket(h, key)) = 0 THEN Append(@, key) ELSE @]

insert(h, index, ix, iy) == Stored(h, hashKey(ix, iy), index)

cell(h, ix, iy) == Bucket(h, hashKey(ix, iy))

\* math.Floor(value * invCellSize64)
coord(h, value) == value \div h.cellSize

\* neighborOffsets without the four diagonal cells
neighborOffsetsAxes ==
    <<[dx |-> 0, dy |-> 0], [dx |-> 1, dy |-> 0], [dx |-> -1, dy |-> 0],
      [dx |-> 0, dy |-> 1], [dx |-> 0, dy |-> -1]>>

neighborOffsets ==
    <<[dx |-> 0, dy |-> 0], [dx |-> 1, dy |-> 0], [dx |-> -1, dy |-> 0],
      [dx |-> 0, dy |-> 1], [dx |-> 0, dy |-> -1], [dx |-> 1, dy |-> 1],
      [dx |-> 1, dy |-> -1], [dx |-> -1, dy |-> 1], [dx |-> -1, dy |-> -1]>>

cellCoordOf(h, b) == [x |-> coord(h, b.pos.x), y |-> coord(h, b.pos.y)]

\* Clear, then insert the balls bs[indices[1]], bs[indices[2]], ... in turn
RECURSIVE InsertAll(_, _, _)
InsertAll(h, bs, indices) ==
    IF indices = <<>> THEN h
    ELSE LET i == Head(indices)
             c == cellCoordOf(h, bs[i])
         IN  InsertAll(insert(h, i, c.x, c.y), bs, Tail(indices))

\* the indices 1..n in order
Indices(n) == [k \in 1..n |-> k]

\* the indices met by the 3x3 scan around cell c of grid h, in scan order
RECURSIVE Scan(_, _, _)
Scan(h, c, k) ==
    IF k > Len(neighborOffsets) THEN <<>>
    ELSE cell(h, c.x + neighborOffsets[k].dx, c.y + neighborOffsets[k].dy)
         \o Scan(h, c, k + 1)

---------------------------------------------------------------------------
(* Game.Update, lines 648-679: the cursor attract and repel impulses *)

\* normalize (lines 266-273): <<nx, ny>>
normalize(dx, dy) ==
    LET distSq == WAdd(WSq(dx), WSq(dy))
        distance == WSqrt(distSq)
    IN  IF distSq = WZero THEN <<0, 0>>
        ELSE <<Div(dx, distance), Div(dy, distance)>>

CursorImpulse(b, in, st, attractDistance) ==
    LET dx == b.pos.x - in.x * Unit
        dy == b.pos.y - in.y * Unit
        distSq == WAdd(WSq(dx), WSq(dy))
        n == normalize(dx, dy)
    IN  IF in.shift
        THEN IF WLess(distSq, WSq(attractDistance))
             THEN [b EXCEPT !.velocity.vx = @ - Mul(n[1], st.moveAttractStrength),
                            !.velocity.vy = @ - Mul(n[2], st.moveAttractStrength)]
             ELSE b
        ELSE IF WLess(distSq, WSq(st.moveAwayDistance))
             THEN [b EXCEPT !.velocity.vx = @ + Mul(n[1], st.moveAwayStrength),
                            !.velocity.vy = @ + Mul(n[2], st.moveAwayStrength)]
             ELSE b

CursorImpulses(bs, in, st, attractDistance) ==
    IF in.right
    THEN [i \in 1..Len(bs) |-> CursorImpulse(bs[i], in, st, attractDistance)]
    ELSE bs

---------------------------------------------------------------------------
(* Game.Update, lines 684-732: the Integrator loop *)

bottomLimit == screenHeight * Unit - screenPadding

rightLimit == screenWidth * Unit

\* Accelerated without the speed cap
Uncapped(v, st) ==
    [vx |-> Mul(v.vx, Unit - st.airDrag),
     vy |-> Mul(v.vy + st.gravity, Unit - st.airDrag)]

\* lines 692-702: gravity, drag and the speed cap
Accelerated(v, st) ==
    LET dragFactor == Unit - st.airDrag
        vx == Mul(v.vx, dragFactor)
        vy == Mul(v.vy + st.gravity, dragFactor)
        speedSq == WAdd(WSq(vx), WSq(vy))
        speed == WSqrt(speedSq)
        scale == Div(st.maxSpeed, speed)
    IN  IF WLess(WSq(st.maxSpeed), speedSq)
        THEN [vx |-> Mul(vx, scale), vy |-> Mul(vy, scale)]
        ELSE [vx |-> vx, vy |-> vy]

\* lines 707-714: the optional top barrier
TopBarrier(b, st) ==
    IF st.hasTopBarrier /\ b.pos.y - b.radius < screenPadding
    THEN [b EXCEPT !.pos.y = screenPadding + b.radius,
                   !.velocity.vy = Mul(@, -st.groundRestitution)]
    ELSE b

\* lines 716-720: the floor
Floor(b, st) ==
    IF b.pos.y + b.radius > bottomLimit
    THEN [b EXCEPT !.pos.y = bottomLimit - b.radius,
                   !.velocity.vy = Mul(@, -st.groundRestitution),
                   !.velocity.vx = Mul(@, st.groundFriction)]
    ELSE b

\* LeftWall with the centre, not the edge, put on the wall
LeftWallAtCentre(b, st) ==
    IF b.pos.x - b.radius < 0
    THEN [b EXCEPT !.pos.x = 0,
                   !.velocity.vx = Mul(@, -st.groundRestitution)]
    ELSE b

\* lines 722-725: the left wall
LeftWall(b, st) ==
    IF b.pos.x - b.radius < 0
    THEN [b EXCEPT !.pos.x = b.radius,
                   !.velocity.vx = Mul(@, -st.groundRestitution)]
    ELSE b

\* lines 727-731: the right wall
RightWall(b, st) ==
    IF b.pos.x > rightLimit - b.radius
    THEN [b EXCEPT !.pos.x = rightLimit - b.radius,
                   !.velocity.vx = Mul(@, -st.groundRestitution)]
    ELSE b

\* lines 704-705: the position advance
Advanced(b, v) ==
    [b EXCEPT !.velocity = v, !.pos.x = @ + v.vx, !.pos.y = @ + v.vy]

IntegrateBall(b, st) ==
    IF b.material = "static" THEN b
    ELSE RightWall(LeftWall(Floor(TopBarrier(
             Advanced(b, Accelerated(b.velocity, st)), st), st), st), st)

Integrated(bs, st) == [i \in 1..Len(bs) |-> IntegrateBall(bs[i], st)]

---------------------------------------------------------------------------
(* Game.Update, lines 734-792: the collision sweeps *)

colliderCellSize == maxSpawnRadius * 2

\* lines 736-745: the grid of one sweep
ColliderGrid(bs) ==
    InsertAll(Clear(newSpatialHash(colliderCellSize)), bs, Indices(Len(bs)))

\* the j > i met by ball i's scan, in scan order, as pairs <<i, j>>
RECURSIVE PairsAbove(_, _)
PairsAbove(i, js) ==
    IF js = <<>> THEN <<>>
    ELSE IF Head(js) <= i THEN PairsAbove(i, Tail(js))
         ELSE <<<<i, Head(js)>>>> \o PairsAbove(i, Tail(js))

\* every pair <<i, j>>, j > i, met by the scans of the balls at indices in
\* grid h, in order (lines 748-757, 894-899, 1044-1051)
RECURSIVE ScanPairs(_, _, _)
ScanPairs(h, bs, indices) ==
    IF indices = <<>> THEN <<>>
    ELSE LET i == Head(indices)
         IN  PairsAbove(i, Scan(h, cellCoordOf(h, bs[i]), 1))
             \o ScanPairs(h, bs, Tail(indices))

SweepPairs(bs) == ScanPairs(ColliderGrid(bs), bs, Indices(Len(bs)))

\* PairRule without the two cases that pass over a pair of one fluid
PairRuleNoSkip(ma, mb, st) ==
    IF (ma = "water" /\ mb = "gas") \/ (ma = "gas" /\ mb = "water")
    THEN [skip |-> FALSE, custom |-> TRUE,
          restitution |-> Mul(st.collisionRestitution, 200), friction |-> 40]
    ELSE IF ma = "water" \/ mb = "water"
    THEN [skip |-> FALSE, custom |-> TRUE,
          restitution |-> Mul(st.collisionRestitution, 250), friction |-> 50]
    ELSE IF ma = "gas" \/ mb = "gas"
    THEN [skip |-> FALSE, custom |-> TRUE,
          restitution |-> Mul(st.collisionRestitution, 300), friction |-> 20]
    ELSE [skip |-> FALSE, custom |-> FALSE, restitution |-> st.collisionRestitution]

\* PairRule with the test for water ahead of the test for water with gas
PairRuleWaterFirst(ma, mb, st) ==
    IF ma = "water" /\ mb = "water" THEN [skip |-> TRUE, custom |-> FALSE]
    ELSE IF ma = "gas" /\ mb = "gas" THEN [skip |-> TRUE, custom |-> FALSE]
    ELSE IF ma = "water" \/ mb = "water"
    THEN [skip |-> FALSE, custom |-> TRUE,
          restitution |-> Mul(st.collisionRestitution, 250), friction |-> 50]
    ELSE IF ma = "gas" \/ mb = "gas"
    THEN [skip |-> FALSE, custom |-> TRUE,
          restitution |-> Mul(st.collisionRestitution, 300), friction |-> 20]
    ELSE [skip |-> FALSE, custom |-> FALSE, restitution |-> st.collisionRestitution]

\* lines 758-784: the rule of a pair by its materials
PairRule(ma, mb, st) ==
    IF ma = "water" /\ mb = "water" THEN [skip |-> TRUE, custom |-> FALSE]
    ELSE IF ma = "gas" /\ mb = "gas" THEN [skip |-> TRUE, custom |-> FALSE]
    ELSE IF (ma = "water" /\ mb = "gas") \/ (ma = "gas" /\ mb = "water")
    THEN [skip |-> FALSE, custom |-> TRUE,
          restitution |-> Mul(st.collisionRestitution, 200), friction |-> 40]
    ELSE IF ma = "water" \/ mb = "water"
    THEN [skip |-> FALSE, custom |-> TRUE,
          restitution |-> Mul(st.collisionRestitution, 250), friction |-> 50]
    ELSE IF ma = "gas" \/ mb = "gas"
    THEN [skip |-> FALSE, custom |-> TRUE,
          restitution |-> Mul(st.collisionRestitution, 300), friction |-> 20]
    ELSE [skip |-> FALSE, custom |-> FALSE, restitution |-> st.collisionRestitution]

\* the call the rule selects
ResolveBy(a, b, rule) ==
    IF rule.skip THEN [b1 |-> a, b2 |-> b, resolved |-> FALSE]
    ELSE IF rule.custom
    THEN resolveCollisionCustom(a, b, rule.restitution, rule.friction)
    ELSE resolveCollision(a, b, rule.restitution)

ResolvePair(a, b, st) == ResolveBy(a, b, PairRule(a.material, b.material, st))

\* the pairs resolved one after another, each on the balls as the pairs
\* before it left them
\* lines 785-788: the pair written back and anyResolved raised
Stepped(acc, i, j, r) ==
    [balls |-> [acc.balls EXCEPT ![i] = r.b1, ![j] = r.b2],
     anyResolved |-> acc.anyResolved \/ r.resolved]

SweepStep(acc, i, j, st) ==
    Stepped(acc, i, j, ResolvePair(acc.balls[i], acc.balls[j], st))

RECURSIVE SweepFold(_, _, _)
SweepFold(acc, pairs, st) ==
    IF pairs = <<>> THEN acc
    ELSE SweepFold(SweepStep(acc, Head(pairs)[1], Head(pairs)[2], st),
                   Tail(pairs), st)

Sweep(bs, st) ==
    SweepFold([balls |-> bs, anyResolved |-> FALSE], SweepPairs(bs), st)

---------------------------------------------------------------------------
(* applyWaterForces (lines 797-994) and applyGasForces (lines 996-1135) *)

\* the indices of the balls whose material is in ms, ascending
RECURSIVE IndicesOf(_, _, _)
IndicesOf(bs, ms, i) ==
    IF i > Len(bs) THEN <<>>
    ELSE IF bs[i].material \in ms THEN <<i>> \o IndicesOf(bs, ms, i + 1)
         ELSE IndicesOf(bs, ms, i + 1)

waterIndices(bs) == IndicesOf(bs, {"water"}, 1)

gasIndices(bs) == IndicesOf(bs, {"gas"}, 1)

solidIndices(bs) == IndicesOf(bs, {"solid", "static"}, 1)

WaterGrid(bs) ==
    InsertAll(Clear(newSpatialHash(waterRestDistance * 2)), bs, waterIndices(bs))

GasGrid(bs) ==
    InsertAll(Clear(newSpatialHash(gasRestDistance * 2)), bs, gasIndices(bs))

SolidGrid(bs) ==
    InsertAll(Clear(newSpatialHash(maxSpawnRadius * 2)), bs, solidIndices(bs))

\* lines 868-877: the distance of a neighbour within the interaction
\* radius, or 0 when the neighbour is skipped
NeighbourDist(a, b, interactionRadius) ==
    LET distSq == DistSq(a, b)
    IN  IF ~WLess(distSq, WSq(interactionRadius)) \/ distSq = WZero THEN 0
        ELSE WSqrt(distSq)

\* DensitySum that skips the neighbours at or below index i, as the force
\* pass does
RECURSIVE DensitySumAbove(_, _, _)
DensitySumAbove(bs, i, neighbors) ==
    IF neighbors = <<>> THEN <<0, 0>>
    ELSE LET j == Head(neighbors)
             rest == DensitySumAbove(bs, i, Tail(neighbors))
             dist == NeighbourDist(bs[i], bs[j], waterInteraction)
             q == Unit - Div(dist, waterInteraction)
         IN  IF j <= i \/ bs[j].material # "water" \/ dist <= 0 THEN rest
             ELSE <<rest[1] + Mul(q, q), rest[2] + Mul(Mul(q, q), q)>>

\* lines 855-885: <<density, nearDensity>> of water ball i
RECURSIVE DensitySum(_, _, _)
DensitySum(bs, i, neighbors) ==
    IF neighbors = <<>> THEN <<0, 0>>
    ELSE LET j == Head(neighbors)
             rest == DensitySum(bs, i, Tail(neighbors))
             dist == NeighbourDist(bs[i], bs[j], waterInteraction)
             q == Unit - Div(dist, waterInteraction)
         IN  IF j = i \/ bs[j].material # "water" \/ dist <= 0 THEN rest
             ELSE <<rest[1] + Mul(q, q), rest[2] + Mul(Mul(q, q), q)>>

\* waterDensity without the particle's own contribution
waterDensityBare(bs, h, i) ==
    LET d == DensitySum(bs, i, Scan(h, cellCoordOf(h, bs[i]), 1))
    IN  [density |-> d[1], nearDensity |-> d[2]]

waterDensity(bs, h, i) ==
    LET d == DensitySum(bs, i, Scan(h, cellCoordOf(h, bs[i]), 1))
    IN  [density |-> d[1] + Unit, nearDensity |-> d[2]]

\* the unit vector from a to b at distance dist
Direction(a, b, dist) ==
    [nx |-> Div(b.pos.x - a.pos.x, dist), ny |-> Div(b.pos.y - a.pos.y, dist)]

\* lines 913-926: the pressure force of a water pair
WaterForce(q, di, dj) ==
    LET pressure == Mul(waterPressureStiff, di.density - waterRestDensity)
        nearPressure == Mul(waterNearStiff, di.nearDensity)
        neighborPressure == Mul(waterPressureStiff, dj.density - waterRestDensity)
        neighborNearPressure == Mul(waterNearStiff, dj.nearDensity)
        pressureMag == Mul(pressure + neighborPressure, 500)
        nearMag == Mul(nearPressure + neighborNearPressure, 500)
    IN  Mul(q, pressureMag) + Mul(Mul(q, q), nearMag)

\* Pushed with the impulse taken from i only
PushedOneSided(bs, i, j, n, force) ==
    [bs EXCEPT ![i].velocity = [vx |-> @.vx - Mul(n.nx, force),
                                vy |-> @.vy - Mul(n.ny, force)]]

\* lines 927-933 and 1066-1072: the impulse along n, opposite on i and j
Pushed(bs, i, j, n, force) ==
    [bs EXCEPT ![i].velocity = [vx |-> @.vx - Mul(n.nx, force),
                                vy |-> @.vy - Mul(n.ny, force)],
               ![j].velocity = [vx |-> @.vx + Mul(n.nx, force),
                                vy |-> @.vy + Mul(n.ny, force)]]

\* lines 935-944 and 1074-1081: the viscosity along n of the velocities as
\* the impulse left them
ViscImpulse(bs, i, j, n, q, viscosity) ==
    Mul(Mul(Mul(Mul(bs[j].velocity.vx - bs[i].velocity.vx, n.nx)
                + Mul(bs[j].velocity.vy - bs[i].velocity.vy, n.ny),
                viscosity), q), 500)

Viscous(bs, i, j, n, viscImpulse) ==
    [bs EXCEPT ![i].velocity = [vx |-> @.vx + Mul(n.nx, viscImpulse),
                                vy |-> @.vy + Mul(n.ny, viscImpulse)],
               ![j].velocity = [vx |-> @.vx - Mul(n.nx, viscImpulse),
                                vy |-> @.vy - Mul(n.ny, viscImpulse)]]

Damped(bs, i, j, n, q, viscosity) ==
    Viscous(bs, i, j, n, ViscImpulse(bs, i, j, n, q, viscosity))

WaterPairOn(bs, i, j, n, q, di, dj) ==
    Damped(Pushed(bs, i, j, n, WaterForce(q, di, dj)), i, j, n, q, waterViscosity)

WaterPairAt(bs, h, i, j, dist) ==
    IF dist <= 0 THEN bs
    ELSE WaterPairOn(bs, i, j, Direction(bs[i], bs[j], dist),
                     Unit - Div(dist, waterInteraction),
                     waterDensity(bs, h, i), waterDensity(bs, h, j))

\* lines 905-945: the pressure and viscosity of one water pair
WaterPair(bs, h, i, j) ==
    WaterPairAt(bs, h, i, j, NeighbourDist(bs[i], bs[j], waterInteraction))

GasPairOn(bs, i, j, n, q) ==
    Damped(Pushed(bs, i, j, n, Mul(Mul(gasPressure, q), q)), i, j, n, q, gasViscosity)

GasPairAt(bs, i, j, dist) ==
    IF dist <= 0 THEN bs
    ELSE GasPairOn(bs, i, j, Direction(bs[i], bs[j], dist),
                   Unit - Div(dist, gasInteraction))

\* lines 1052-1082: the pressure and viscosity of one gas pair
GasPair(bs, i, j) ==
    GasPairAt(bs, i, j, NeighbourDist(bs[i], bs[j], gasInteraction))

\* lines 887-948: the water pairs one after another; the densities are
\* those of pass 1, positions do not change in this pass
RECURSIVE WaterPairsFold(_, _, _)
WaterPairsFold(bs, h, pairs) ==
    IF pairs = <<>> THEN bs
    ELSE WaterPairsFold(WaterPair(bs, h, Head(pairs)[1], Head(pairs)[2]),
                        h, Tail(pairs))

\* lines 1044-1085
RECURSIVE GasPairsFold(_, _)
GasPairsFold(bs, pairs) ==
    IF pairs = <<>> THEN bs
    ELSE GasPairsFold(GasPair(bs, Head(pairs)[1], Head(pairs)[2]), Tail(pairs))

\* The cell whose neighbourhood of the solid grid a fluid ball scans: the
\* cached cell of the ball in its own grid (lines 953-955, 1094-1096).
BoundaryScanCell(fluidGrid, b) == cellCoordOf(fluidGrid, b)

\* the solids met by fluid ball i's scan of the solid grid, in scan order
BoundaryScan(fluidGrid, solidGrid, bs, i) ==
    Scan(solidGrid, BoundaryScanCell(fluidGrid, bs[i]), 1)

\* lines 969-977 and 1110-1118: the push on fluid ball i away from solid s,
\* and its reaction on a movable solid
BoundaryPushed(bs, i, s, k, n, push) ==
    [bs EXCEPT ![i].velocity = [vx |-> @.vx + Mul(n.nx, push),
                                vy |-> @.vy + Mul(n.ny, push)],
               ![s].velocity = IF bs[s].material # "static"
                               THEN [vx |-> @.vx - Mul(Mul(n.nx, push), k.react),
                                     vy |-> @.vy - Mul(Mul(n.ny, push), k.react)]
                               ELSE @]

\* lines 979-982 and 1120-1123: the tangential drag of the velocities as
\* the push left them
BoundaryDrag(bs, i, s, k, n) ==
    Mul(Mul(bs[i].velocity.vx - bs[s].velocity.vx, -n.ny)
        + Mul(bs[i].velocity.vy - bs[s].velocity.vy, n.nx), k.drag)

\* lines 983-989 and 1124-1130
BoundaryDragged(bs, i, s, k, n, drag) ==
    [bs EXCEPT ![i].velocity = [vx |-> @.vx - Mul(-n.ny, drag),
                                vy |-> @.vy - Mul(n.nx, drag)],
               ![s].velocity = IF bs[s].material # "static"
                               THEN [vx |-> @.vx + Mul(Mul(-n.ny, drag), k.react),
                                     vy |-> @.vy + Mul(Mul(n.nx, drag), k.react)]
                               ELSE @]

BoundarySlowed(bs, i, s, k, n) ==
    BoundaryDragged(bs, i, s, k, n, BoundaryDrag(bs, i, s, k, n))

BoundaryAt(bs, i, s, k, allowed, dist) ==
    IF dist <= 0 THEN bs
    ELSE BoundarySlowed(BoundaryPushed(bs, i, s, k, Direction(bs[s], bs[i], dist),
                                       Mul(allowed - dist, k.push)),
                        i, s, k, Direction(bs[s], bs[i], dist))

\* lines 957-990 and 1098-1131: fluid ball i against solid ball s; k.push,
\* k.drag, k.react and k.rest are the coefficients of the fluid
BoundaryPair(bs, i, s, k) ==
    BoundaryAt(bs, i, s, k, bs[s].radius + bs[i].radius + k.rest,
               NeighbourDist(bs[s], bs[i], bs[s].radius + bs[i].radius + k.rest))

RECURSIVE BoundaryFold(_, _, _, _)
BoundaryFold(bs, i, solids, k) ==
    IF solids = <<>> THEN bs
    ELSE BoundaryFold(BoundaryPair(bs, i, Head(solids), k), i, Tail(solids), k)

\* lines 950-993 and 1091-1134; the grids are those built at the start of
\* the pass
RECURSIVE BoundaryPass(_, _, _, _, _, _)
BoundaryPass(bs, at, fluidGrid, solidGrid, indices, k) ==
    IF indices = <<>> THEN bs
    ELSE LET i == Head(indices)
         IN  BoundaryPass(BoundaryFold(bs, i, BoundaryScan(fluidGrid, solidGrid, at, i), k),
                          at, fluidGrid, solidGrid, Tail(indices), k)

waterBoundary ==
    [rest |-> waterRestDistance, push |-> waterBoundaryPush,
     drag |-> waterBoundaryDrag, react |-> 250]

gasBoundary ==
    [rest |-> gasRestDistance, push |-> gasBoundaryPush,
     drag |-> gasBoundaryDrag, react |-> 150]

applyWaterForces(bs) ==
    IF Len(bs) = 0 \/ waterIndices(bs) = <<>> THEN bs
    ELSE LET h == WaterGrid(bs)
             forced == WaterPairsFold(bs, h, ScanPairs(h, bs, waterIndices(bs)))
         IN  BoundaryPass(forced, bs, h, SolidGrid(bs), waterIndices(bs), waterBoundary)

\* Buoyant with the buoyancy added to vy, not subtracted
BuoyantDown(b) ==
    IF b.material = "gas"
    THEN [b EXCEPT !.velocity.vx = Mul(@, Unit - gasDrag),
                   !.velocity.vy = Mul(@ + gasBuoyancy, Unit - Mul(gasDrag, 500))]
    ELSE b

\* lines 1038-1042: buoyancy and drag
Buoyant(b) ==
    IF b.material = "gas"
    THEN [b EXCEPT !.velocity.vx = Mul(@, Unit - gasDrag),
                   !.velocity.vy = Mul(@ - gasBuoyancy, Unit - Mul(gasDrag, 500))]
    ELSE b

applyGasForces(bs) ==
    IF gasIndices(bs) = <<>> THEN bs
    ELSE LET h == GasGrid(bs)
             lifted == [i \in 1..Len(bs) |-> Buoyant(bs[i])]
             forced == GasPairsFold(lifted, ScanPairs(h, bs, gasIndices(bs)))
         IN  IF solidIndices(bs) = <<>> THEN forced
             ELSE BoundaryPass(forced, bs, h, SolidGrid(bs), gasIndices(bs), gasBoundary)

---------------------------------------------------------------------------
(* Game.Update, lines 441-646: menu, keys, wheel, delete and spawn *)

menuOptionCount == 12

\* lines 453-464: the selected option after Up and Down
Navigated(sel, in, prevUp, prevDown) ==
    LET s1 == IF in.up /\ ~prevUp
              THEN (IF sel - 1 < 0 THEN menuOptionCount - 1 ELSE sel - 1)
              ELSE sel
    IN  IF in.down /\ ~prevDown
        THEN (IF s1 + 1 > menuOptionCount - 1 THEN 0 ELSE s1 + 1)
        ELSE s1

\* lines 470-496, 509-512: the settings after the wheel moved by in.wheel
\* on option sel
Adjusted(st, sel, in) ==
    LET changeAmount == IF in.shift THEN 100 ELSE 10
        change == in.wheel * changeAmount
    IN  IF in.wheel = 0 THEN st
        ELSE CASE sel = 0 -> [st EXCEPT !.gravity = Max(0, @ + change)]
               [] sel = 1 -> [st EXCEPT !.maxSpeed = Max(100, @ + change)]
               [] sel = 2 -> [st EXCEPT !.moveAwayDistance = Max(10 * Unit, @ + change * 10)]
               [] sel = 3 -> [st EXCEPT !.moveAwayStrength = Max(100, @ + change)]
               [] sel = 4 -> [st EXCEPT !.moveAttractStrength = Max(100, @ + change)]
               [] sel = 5 -> [st EXCEPT !.groundRestitution = Min(Unit, Max(0, @ + change))]
               [] sel = 6 -> [st EXCEPT !.collisionRestitution = Min(Unit, Max(0, @ + change))]
               [] sel = 7 -> [st EXCEPT !.airDrag = Min(Unit, Max(0, @ + change))]
               [] sel = 8 -> [st EXCEPT !.groundFriction = Min(Unit, Max(0, @ + change))]
               [] sel = 10 -> [st EXCEPT !.hasTopBarrier = ~@]
               [] OTHER -> st

\* lines 497-508: the spawn count after the wheel moved on option 9
SpawnCountAdjusted(count, sel, in) ==
    LET delta == IF in.shift THEN in.wheel * 5 ELSE in.wheel
    IN  IF in.wheel # 0 /\ sel = 9 THEN Min(50, Max(1, count + delta)) ELSE count

\* lines 524-536
ShapeSelected(shape, in) ==
    CASE in.key = 1 -> "circle"
      [] in.key = 2 -> "square"
      [] in.key = 3 -> "triangle"
      [] in.key = 4 -> "water"
      [] in.key = 5 -> "gas"
      [] in.key = 6 -> "static"
      [] OTHER -> shape

\* BallsizeScrolled without the clamp of line 554
BallsizeUnclamped(size, in) ==
    IF in.shift THEN size
    ELSE IF in.wheel < 0 THEN size + ballSpawnStep
    ELSE IF in.wheel > 0 THEN size - ballSpawnStep
    ELSE size

\* lines 547-554
BallsizeScrolled(size, in) ==
    LET moved == IF in.wheel < 0 THEN size + ballSpawnStep
                 ELSE IF in.wheel > 0 THEN size - ballSpawnStep
                 ELSE size
    IN  IF in.shift THEN size
        ELSE Max(Min(moved, maxSpawnRadius), minSpawnRadius)

\* lines 540-545
AttractDistanceScrolled(d, in) ==
    IF in.shift /\ in.wheel < 0 THEN d + 2 * Unit
    ELSE IF in.shift /\ in.wheel > 0 THEN d - 2 * Unit
    ELSE d

\* lines 583-592: the balls a delete request at the cursor keeps
deleteMargin == 15 * Unit

Kept(b, in) ==
    LET dx == b.pos.x - in.x * Unit
        dy == b.pos.y - in.y * Unit
    IN  ~WLess(WAdd(WSq(dx), WSq(dy)), WSq(b.radius + deleteMargin))

\* line 590: append(balls[:i], balls[i+1:]...)
RemoveAt(bs, i) == SubSeq(bs, 1, i - 1) \o SubSeq(bs, i + 1, Len(bs))

\* the loop run from the first index up, stepping past the ball that moves
\* into a removed place
RECURSIVE DeleteUp(_, _, _)
DeleteUp(bs, i, in) ==
    IF i > Len(bs) THEN bs
    ELSE DeleteUp(IF Kept(bs[i], in) THEN bs ELSE RemoveAt(bs, i), i + 1, in)

DeletedUpward(bs, in) == DeleteUp(bs, 1, in)

\* lines 583-592: the loop from the last index down to the first
RECURSIVE DeleteDown(_, _, _)
DeleteDown(bs, i, in) ==
    IF i < 1 THEN bs
    ELSE DeleteDown(IF Kept(bs[i], in) THEN bs ELSE RemoveAt(bs, i), i - 1, in)

Deleted(bs, in) == DeleteDown(bs, Len(bs), in)

clampSolid(size) == Min(Max(size, minSpawnRadius), maxSpawnRadius)

clampWater(size) == Min(Max(size, waterSpawnClampMin), waterSpawnClampMax)

clampGas(size) == Min(Max(size, gasSpawnClampMin), gasSpawnClampMax)

\* float32(math.Cos(angle)), float32(math.Sin(angle)) for
\* angle = 2*Pi*n/count, to three decimals, count <= 6
CosSin(n, count) ==
    CASE count = 1 -> <<1000, 0>>
      [] count = 2 -> <<<<1000, 0>>, <<-1000, 0>>>>[n + 1]
      [] count = 3 -> <<<<1000, 0>>, <<-500, 866>>, <<-500, -866>>>>[n + 1]
      [] count = 4 -> <<<<1000, 0>>, <<0, 1000>>, <<-1000, 0>>, <<0, -1000>>>>[n + 1]
      [] count = 5 -> <<<<1000, 0>>, <<309, 951>>, <<-809, 587>>,
                        <<-809, -587>>, <<309, -951>>>>[n + 1]
      [] count = 6 -> <<<<1000, 0>>, <<500, 866>>, <<-500, 866>>, <<-1000, 0>>,
                        <<-500, -866>>, <<500, -866>>>>[n + 1]

\* lines 610-638: the n-th ball of a cluster
Spawned(n, count, shape, size, in) ==
    LET offsetScale ==
            IF count > 1
            THEN CASE shape = "water" -> Mul(clampWater(size), 500)
                   [] shape = "gas" -> Mul(clampGas(size), 400)
                   [] OTHER -> Mul(clampSolid(size), 600)
            ELSE 0
        pos == createPos(in.x * Unit + Mul(CosSin(n, count)[1], offsetScale),
                         in.y * Unit + Mul(CosSin(n, count)[2], offsetScale))
    IN  CASE shape = "water" -> createWaterParticle(pos, clampWater(size))
          [] shape = "gas" -> createGasParticle(pos, clampGas(size))
          [] shape = "static" -> createStaticSolid(pos, clampSolid(size), "static")
          [] OTHER -> createBall(pos, clampSolid(size), shape)

SpawnCluster(bs, count, shape, size, in) ==
    LET c == IF count < 1 THEN 1 ELSE count
    IN  bs \o [k \in 1..c |-> Spawned(k - 1, c, shape, size, in)]

---------------------------------------------------------------------------
(* Game.Update as a state machine *)

MaxFrames == 3

MaxBalls == 4

\* Scenes left by earlier frames: static balls stay where a click with the
\* static shape, radius 10 and spawn count 1 put them.
StaticAt(x, y) == createStaticSolid(createPos(x * Unit, y * Unit), 10 * Unit, "static")

hardSettings ==
    [defaultSettings EXCEPT !.maxSpeed = 100, !.groundRestitution = Unit,
                            !.groundFriction = Unit, !.airDrag = 0]

\* The scene, the settings (as the menu can leave them) and the spawn count
\* a run starts from
Starts ==
    {[balls |-> <<>>, settings |-> defaultSettings, count |-> 1],
     [balls |-> <<>>, settings |-> defaultSettings, count |-> 2],
     [balls |-> <<>>, settings |-> hardSettings, count |-> 1],
     [balls |-> <<StaticAt(500, 500)>>,
      settings |-> [defaultSettings EXCEPT !.hasTopBarrier = TRUE], count |-> 1],
     [balls |-> <<StaticAt(30, 40)>>, settings |-> defaultSettings, count |-> 1],
     [balls |-> <<StaticAt(500, 500), StaticAt(512, 500)>>,
      settings |-> defaultSettings, count |-> 1]}

\* The readings of keys, wheel, buttons and cursor offered in a frame
Inputs ==
    {NoInput,
     [NoInput EXCEPT !.left = TRUE, !.key = 1, !.x = 506, !.y = 500],
     [NoInput EXCEPT !.left = TRUE, !.key = 4, !.x = 506, !.y = 500],
     [NoInput EXCEPT !.left = TRUE, !.key = 5, !.x = 506, !.y = 500],
     [NoInput EXCEPT !.left = TRUE, !.key = 6, !.x = 506, !.y = 500],
     [NoInput EXCEPT !.left = TRUE, !.key = 4, !.x = 40, !.y = 40],
     [NoInput EXCEPT !.left = TRUE, !.key = 5, !.x = 40, !.y = 40],
     [NoInput EXCEPT !.left = TRUE, !.key = 1, !.x = 4, !.y = 1026],
     [NoInput EXCEPT !.left = TRUE, !.key = 5, !.x = 1916, !.y = 54],
     [NoInput EXCEPT !.left = TRUE, !.shift = TRUE, !.x = 506, !.y = 500],
     [NoInput EXCEPT !.right = TRUE, !.x = 480, !.y = 500],
     [NoInput EXCEPT !.right = TRUE, !.shift = TRUE, !.x = 480, !.y = 460],
     [NoInput EXCEPT !.esc = TRUE],
     [NoInput EXCEPT !.down = TRUE, !.wheel = 1]}

Init ==
    /\ NewGame
    /\ call = NoCall

SceneOf(starts, sizes) ==
    /\ \E st \in starts :
         /\ balls = st.balls
         /\ settings = st.settings
         /\ spawnClusterCount = st.count
    /\ showMenu = FALSE
    /\ selectedOption = 9
    /\ prevEscPressed = FALSE
    /\ prevUpPressed = FALSE
    /\ prevDownPressed = FALSE
    /\ moveAttractDistance = 200 * Unit
    /\ ballsize \in sizes
    /\ ballSpawnTimer = 0
    /\ currentShape = (IF balls = <<>> THEN "circle" ELSE "static")
    /\ input = NoInput
    /\ pc = "idle"
    /\ sweeps = 0
    /\ anyResolved = FALSE
    /\ frame = 0

\* line 433: ballsize starts at 10
SceneFrom(starts) == SceneOf(starts, {10 * Unit})

InitScene == SceneFrom(Starts) /\ call = NoCall

\* MenuFrame without the return of line 520: the frame goes on to the physics
MenuFrameNoReturn(in) ==
    LET sel == Navigated(selectedOption, in, prevUpPressed, prevDownPressed)
    IN  /\ selectedOption' = sel
        /\ prevUpPressed' = in.up
        /\ prevDownPressed' = in.down
        /\ settings' = Adjusted(settings, sel, in)
        /\ spawnClusterCount' = SpawnCountAdjusted(spawnClusterCount, sel, in)
        /\ pc' = IF in.wheel > 0 /\ sel = 11 THEN "exit" ELSE "cursor"
        /\ input' = in
        /\ UNCHANGED <<balls, moveAttractDistance, ballsize, ballSpawnTimer,
                       currentShape>>

\* lines 441-521: a frame with the menu open ends before the physics
MenuFrame(in) ==
    LET sel == Navigated(selectedOption, in, prevUpPressed, prevDownPressed)
    IN  /\ selectedOption' = sel
        /\ prevUpPressed' = in.up
        /\ prevDownPressed' = in.down
        /\ settings' = Adjusted(settings, sel, in)
        /\ spawnClusterCount' = SpawnCountAdjusted(spawnClusterCount, sel, in)
        /\ pc' = IF in.wheel > 0 /\ sel = 11 THEN "exit" ELSE "idle"
        /\ input' = NoInput
        /\ UNCHANGED <<balls, moveAttractDistance, ballsize, ballSpawnTimer,
                       currentShape>>

\* PlayFrame with a spawn timer of 4 instead of the 3 of line 640
PlayFrameSlow(in) ==
    LET shape == ShapeSelected(currentShape, in)
        size == BallsizeScrolled(ballsize, in)
        spawns == in.left /\ ~in.shift /\ ballSpawnTimer <= 0
        timer == IF spawns THEN 4 ELSE ballSpawnTimer
    IN  /\ spawns => Len(balls) + spawnClusterCount <= MaxBalls
        /\ currentShape' = shape
        /\ ballsize' = size
        /\ moveAttractDistance' = AttractDistanceScrolled(moveAttractDistance, in)
        /\ balls' = IF in.left /\ in.shift THEN Deleted(balls, in)
                    ELSE IF spawns
                    THEN SpawnCluster(balls, spawnClusterCount, shape, size, in)
                    ELSE balls
        /\ ballSpawnTimer' = IF timer > 0 THEN timer - 1 ELSE timer
        /\ input' = in
        /\ pc' = "cursor"
        /\ UNCHANGED <<settings, selectedOption, prevUpPressed, prevDownPressed,
                       spawnClusterCount>>

\* lines 523-646: keys, wheel, delete, spawn and the spawn timer
PlayFrame(in) ==
    LET shape == ShapeSelected(currentShape, in)
        size == BallsizeScrolled(ballsize, in)
        spawns == in.left /\ ~in.shift /\ ballSpawnTimer <= 0
        timer == IF spawns THEN 3 ELSE ballSpawnTimer
    IN  /\ spawns => Len(balls) + spawnClusterCount <= MaxBalls
        /\ currentShape' = shape
        /\ ballsize' = size
        /\ moveAttractDistance' = AttractDistanceScrolled(moveAttractDistance, in)
        /\ balls' = IF in.left /\ in.shift THEN Deleted(balls, in)
                    ELSE IF spawns
                    THEN SpawnCluster(balls, spawnClusterCount, shape, size, in)
                    ELSE balls
        /\ ballSpawnTimer' = IF timer > 0 THEN timer - 1 ELSE timer
        /\ input' = in
        /\ pc' = "cursor"
        /\ UNCHANGED <<settings, selectedOption, prevUpPressed, prevDownPressed,
                       spawnClusterCount>>

\* lines 441-446: the menu toggled by ESC, then the frame of either kind
InputFrame(in) ==
    LET menu == IF in.esc /\ ~prevEscPressed THEN ~showMenu ELSE showMenu
    IN  /\ showMenu' = menu
        /\ prevEscPressed' = in.esc
        /\ IF menu THEN MenuFrame(in) ELSE PlayFrame(in)

\* updateButtonHover is false from NewGame on unless Draw finds the cursor
\* over the button, so the click test of line 558 fails in these frames
HandleInput ==
    /\ pc = "idle"
    /\ frame < MaxFrames
    /\ \E in \in Inputs : InputFrame(in)
    /\ frame' = frame + 1
    /\ UNCHANGED <<sweeps, anyResolved, call>>

\* the cursor impulses followed by the Integrator
AfterCursorIntegrate == "integrate"

\* the stage that follows the cursor impulses (lines 681-682)
AfterCursor == "water"

\* the stage that follows the force models (line 684)
AfterForces == "integrate"

\* lines 789-791: the loop goes on while a sweep resolved a pair
AfterSweepInverted(any) == IF any THEN "idle" ELSE "collide"

AfterSweep(any) == IF any THEN "collide" ELSE "idle"

physicsUnchanged ==
    <<settings, showMenu, selectedOption, prevEscPressed, prevUpPressed,
      prevDownPressed, moveAttractDistance, spawnClusterCount, ballsize,
      ballSpawnTimer, currentShape, frame, call>>

Cursor ==
    /\ pc = "cursor"
    /\ balls' = CursorImpulses(balls, input, settings, moveAttractDistance)
    /\ pc' = AfterCursor
    /\ UNCHANGED <<input, sweeps, anyResolved>>
    /\ UNCHANGED physicsUnchanged

Water ==
    /\ pc = "water"
    /\ balls' = applyWaterForces(balls)
    /\ pc' = "gas"
    /\ UNCHANGED <<input, sweeps, anyResolved>>
    /\ UNCHANGED physicsUnchanged

Gas ==
    /\ pc = "gas"
    /\ balls' = applyGasForces(balls)
    /\ pc' = AfterForces
    /\ UNCHANGED <<input, sweeps, anyResolved>>
    /\ UNCHANGED physicsUnchanged

\* lines 684-734: the Integrator loop, then the test len(balls) > 1
Integrate ==
    /\ pc = "integrate"
    /\ balls' = Integrated(balls, settings)
    /\ pc' = IF Len(balls) > 1 THEN "collide" ELSE "idle"
    /\ sweeps' = 0
    /\ anyResolved' = FALSE
    /\ input' = NoInput
    /\ UNCHANGED physicsUnchanged

\* lines 735-791: one iteration of the collision loop
CollisionSweep ==
    /\ pc = "collide"
    /\ sweeps < maxCollisionSolves
    /\ \E r \in {Sweep(balls, settings)} :
           /\ balls' = r.balls
           /\ anyResolved' = r.anyResolved
           /\ pc' = AfterSweep(r.anyResolved)
    /\ sweeps' = sweeps + 1
    /\ UNCHANGED input
    /\ UNCHANGED physicsUnchanged

\* line 735: the loop ends when iteration reaches maxCollisionSolves
CollisionDone ==
    /\ pc = "collide"
    /\ sweeps >= maxCollisionSolves
    /\ pc' = "idle"
    /\ UNCHANGED <<balls, input, sweeps, anyResolved>>
    /\ UNCHANGED physicsUnchanged

Next ==
    \/ HandleInput
    \/ Cursor
    \/ Water
    \/ Gas
    \/ Integrate
    \/ CollisionSweep
    \/ CollisionDone

Spec == InitScene /\ [][Next]_vars

---------------------------------------------------------------------------
(* Properties of the frame *)

Range(seq) == {seq[k] : k \in 1..Len(seq)}

SpeedSq(b) == WAdd(WSq(b.velocity.vx), WSq(b.velocity.vy))

PositionsOf(bs) == [i \in 1..Len(bs) |-> bs[i].pos]

\* the state the Integrator loop of a frame has just left
JustIntegrated == frame > 0 /\ sweeps = 0 /\ pc \in {"idle", "collide"} /\ ~showMenu

\* C1: in every step of the water forces, the gas forces, the Integrator
\* loop and the collision sweeps, each static particle keeps its position
\* and its velocity.
C1_StaticUntouched ==
    [][(pc \in {"water", "gas", "integrate", "collide"}) =>
         (\A i \in 1..Len(balls) :
             balls[i].material = "static" => balls'[i] = balls[i])]_vars

\* a water particle pushed off a static particle by the boundary scan, and
\* the pair resolved by a sweep
C1_Witness ==
    /\ pc = "collide" /\ anyResolved /\ Len(balls) = 2
    /\ balls[1] = StaticAt(30, 40)
    /\ balls[2].material = "water" /\ balls[2].velocity.vx > 0

\* C2: the Integrator loop leaves every non-static particle with a speed of
\* at most settings.maxSpeed.
C2_SpeedCapped ==
    [][pc = "integrate" =>
         (\A i \in 1..Len(balls') :
             balls'[i].material # "static" =>
                 ~WLess(WSq(settings.maxSpeed), SpeedSq(balls'[i])))]_vars

\* a particle that gravity alone would take past the cap, left at the cap
C2_Witness ==
    /\ JustIntegrated /\ settings.gravity > settings.maxSpeed
    /\ \E i \in 1..Len(balls) :
          /\ balls[i].material # "static"
          /\ SpeedSq(balls[i]) = WSq(settings.maxSpeed)

Contained(b, st) ==
    /\ b.pos.x - b.radius >= 0
    /\ b.pos.x + b.radius <= screenWidth * Unit
    /\ b.pos.y + b.radius <= screenHeight * Unit - screenPadding
    /\ st.hasTopBarrier => b.pos.y - b.radius >= screenPadding

\* C3: the Integrator loop leaves every non-static particle inside the left
\* wall, the right wall and the floor, and below the top barrier when
\* hasTopBarrier is set.
C3_Contained ==
    [][pc = "integrate" =>
         (\A i \in 1..Len(balls') :
             balls'[i].material # "static" => Contained(balls'[i], settings))]_vars

\* a particle spawned across the left wall and the floor, put back on both
C3_Witness ==
    /\ JustIntegrated
    /\ \E i \in 1..Len(balls) :
          /\ balls[i].material # "static"
          /\ balls[i].pos.x = balls[i].radius
          /\ balls[i].pos.y + balls[i].radius = screenHeight * Unit - screenPadding

\* C4: the collision loop of a frame runs at most maxCollisionSolves sweeps,
\* and when it has ended either its last sweep resolved no pair or it ran
\* maxCollisionSolves sweeps.
C4_SweepsCapped ==
    /\ sweeps <= maxCollisionSolves
    /\ pc = "idle" => (~anyResolved \/ sweeps = maxCollisionSolves)

\* the loop ended by the cap while its last sweep still resolved a pair
C4_Witness == pc = "idle" /\ sweeps = maxCollisionSolves /\ anyResolved

InReach(f, s, restDistance) ==
    /\ DistSq(f, s) # WZero
    /\ WLess(DistSq(f, s), WSq(f.radius + restDistance + s.radius))

\* C8 (as stated): when the water forces run, the scan of every water
\* particle finds every solid or static particle within its radius plus
\* waterRestDistance plus the obstacle's radius; likewise for every gas
\* particle with gasRestDistance when the gas forces run.
C8_BoundaryScanFindsObstacle ==
    \A i \in 1..Len(balls) : \A s \in 1..Len(balls) :
        balls[s].material \in {"solid", "static"} =>
            /\ (pc = "water" /\ balls[i].material = "water"
                   /\ InReach(balls[i], balls[s], waterRestDistance))
               => s \in Range(BoundaryScan(WaterGrid(balls), SolidGrid(balls), balls, i))
            /\ (pc = "gas" /\ balls[i].material = "gas"
                   /\ InReach(balls[i], balls[s], gasRestDistance))
               => s \in Range(BoundaryScan(GasGrid(balls), SolidGrid(balls), balls, i))

---------------------------------------------------------------------------
(* The grid scans as functions of the particle array *)

SceneSize == 3

Placed(material, x, y, r) ==
    [createBall(createPos(x, y), r, "circle") EXCEPT !.material = material]

\* Particles of the largest and smallest radii a spawn gives, on both sides
\* of cell borders of their grids, in thousandths of a pixel.
GridBalls ==
    {Placed("solid", 239999, 500000, maxSpawnRadius),
     Placed("static", 459000, 500000, maxSpawnRadius),
     Placed("solid", 340000, 420000, maxSpawnRadius),
     Placed("solid", 240000, 480000, minSpawnRadius),
     Placed("water", 47999, 48000, 20 * Unit),
     Placed("water", 48000, 47999, 3 * Unit),
     Placed("water", 69598, 48000, 3 * Unit),
     Placed("gas", 63999, 64000, 30 * Unit),
     Placed("gas", 87998, 63999, 4 * Unit)}

GridArgs ==
    {[fn |-> "scan", done |-> FALSE, balls |-> bs] :
        bs \in [1..SceneSize -> GridBalls]}

InitGrid == NewGame /\ call \in GridArgs

\* the pairs met by a collision sweep (lines 736-757), by the water force
\* pass (lines 887-904) and by the gas force pass (lines 1044-1051)
ScanCall ==
    /\ call.fn = "scan" /\ ~call.done
    /\ call' = [call EXCEPT !.done = TRUE] @@
               [out |-> [collider |-> SweepPairs(call.balls),
                         water |-> ScanPairs(WaterGrid(call.balls), call.balls,
                                             waterIndices(call.balls)),
                         gas |-> ScanPairs(GasGrid(call.balls), call.balls,
                                           gasIndices(call.balls))]]
    /\ UNCHANGED gameVars

SpecGrid == InitGrid /\ [][ScanCall]_vars

ScanDone == call.fn = "scan" /\ call.done

Count(seq, e) == Cardinality({k \in 1..Len(seq) : seq[k] = e})

Within(a, b, distance) == WLess(DistSq(a, b), WSq(distance))

\* C9: each grid's cell is at least as large as the distance it serves, and
\* a collision sweep meets every overlapping pair exactly once, the water
\* pass every water pair within waterInteraction exactly once and the gas
\* pass every gas pair within gasInteraction exactly once.
C9_PairsScannedOnce ==
    /\ colliderCellSize >= maxSpawnRadius + maxSpawnRadius
    /\ waterRestDistance * 2 >= waterInteraction
    /\ gasRestDistance * 2 >= gasInteraction
    /\ ScanDone =>
         \A i \in 1..Len(call.balls) : \A j \in 1..Len(call.balls) :
            i < j =>
              /\ Overlapping(call.balls[i], call.balls[j])
                 => Count(call.out.collider, <<i, j>>) = 1
              /\ (call.balls[i].material = "water" /\ call.balls[j].material = "water"
                    /\ Within(call.balls[i], call.balls[j], waterInteraction))
                 => Count(call.out.water, <<i, j>>) = 1
              /\ (call.balls[i].material = "gas" /\ call.balls[j].material = "gas"
                    /\ Within(call.balls[i], call.balls[j], gasInteraction))
                 => Count(call.out.gas, <<i, j>>) = 1

ColliderCell(b) == cellCoordOf(newSpatialHash(colliderCellSize), b)

\* two overlapping particles of the largest radius in diagonal cells of the
\* collision grid, met once
C9_Witness ==
    /\ ScanDone
    /\ \E i \in 1..Len(call.balls) : \E j \in 1..Len(call.balls) :
          /\ i < j
          /\ Overlapping(call.balls[i], call.balls[j])
          /\ call.balls[i].radius = maxSpawnRadius
          /\ call.balls[j].radius = maxSpawnRadius
          /\ ColliderCell(call.balls[i]).x # ColliderCell(call.balls[j]).x
          /\ ColliderCell(call.balls[i]).y # ColliderCell(call.balls[j]).y
          /\ Count(call.out.collider, <<i, j>>) = 1

---------------------------------------------------------------------------
(* The density pass of applyWaterForces as a function of the particle array *)

DensityBalls ==
    {Placed("water", 47999, 48000, 3 * Unit),
     Placed("water", 48000, 47999, 3 * Unit),
     Placed("water", 69598, 48000, 3 * Unit),
     [Placed("water", 26500, 52000, 3 * Unit)
        EXCEPT !.velocity = [vx |-> 300, vy |-> -200]],
     Placed("solid", 50000, 48000, 10 * Unit)}

DensityArgs ==
    {[fn |-> "density", done |-> FALSE, balls |-> bs, i |-> p[1], j |-> p[2]] :
        bs \in [1..SceneSize -> DensityBalls],
        p \in {q \in (1..SceneSize) \X (1..SceneSize) : q[1] < q[2]}}

InitDensity == NewGame /\ call \in DensityArgs

\* the array with the particles at i and j exchanged
Swapped(bs, i, j) == [bs EXCEPT ![i] = bs[j], ![j] = bs[i]]

\* lines 836-885: the density and near-density of every water particle
Densities(bs) ==
    [k \in 1..Len(bs) |->
        IF bs[k].material = "water" THEN waterDensity(bs, WaterGrid(bs), k)
        ELSE [density |-> 0, nearDensity |-> 0]]

DensityCall ==
    /\ call.fn = "density" /\ ~call.done
    /\ call' = [call EXCEPT !.done = TRUE] @@
               [out |-> [before |-> Densities(call.balls),
                         after |-> Densities(Swapped(call.balls, call.i, call.j)),
                         forced |-> applyWaterForces(call.balls)]]
    /\ UNCHANGED gameVars

SpecDensity == InitDensity /\ [][DensityCall]_vars

DensityDone == call.fn = "density" /\ call.done

\* water particles a and b of bs in range of each other and of no other
\* water particle
AloneInRange(bs, a, b) ==
    /\ a # b
    /\ bs[a].material = "water" /\ bs[b].material = "water"
    /\ DistSq(bs[a], bs[b]) # WZero
    /\ Within(bs[a], bs[b], waterInteraction)
    /\ \A k \in 1..Len(bs) :
          (k # a /\ k # b /\ bs[k].material = "water")
          => (~Within(bs[a], bs[k], waterInteraction)
              /\ ~Within(bs[b], bs[k], waterInteraction))

\* C10: exchanging two particles of the array leaves every particle, at its
\* new index, the density and near-density it had, and two water particles
\* alone in range of each other have equal densities and near-densities.
C10_DensityOrderFree ==
    DensityDone =>
        /\ call.out.after[call.i] = call.out.before[call.j]
        /\ call.out.after[call.j] = call.out.before[call.i]
        /\ \A k \in 1..Len(call.balls) :
              (k # call.i /\ k # call.j) => call.out.after[k] = call.out.before[k]
        /\ \A a \in 1..Len(call.balls) : \A b \in 1..Len(call.balls) :
              AloneInRange(call.balls, a, b) => call.out.before[a] = call.out.before[b]

\* two different water particles in range of each other exchanged, with a
\* third water particle in range of the first
C10_Witness ==
    /\ DensityDone
    /\ call.balls[call.i] # call.balls[call.j]
    /\ call.balls[call.i].material = "water"
    /\ call.balls[call.j].material = "water"
    /\ call.out.before[call.i].density > Unit
    /\ call.out.before[call.i] # call.out.before[call.j]
    /\ \E k \in 1..Len(call.balls) :
          /\ k # call.i /\ k # call.j
          /\ call.balls[k].material = "water"
          /\ call.balls[k] # call.balls[call.i]
          /\ Within(call.balls[call.i], call.balls[k], waterInteraction)
          /\ Within(call.balls[call.i], call.balls[call.j], waterInteraction)

\* water particle k of bs has no other water particle within waterInteraction
Lone(bs, k) ==
    /\ bs[k].material = "water"
    /\ \A m \in 1..Len(bs) :
          (m # k /\ bs[m].material = "water")
          => ~Within(bs[k], bs[m], waterInteraction)

\* no solid or static particle of bs is in boundary range of particle k
NoObstacle(bs, k) ==
    \A m \in 1..Len(bs) :
        bs[m].material \in {"solid", "static"}
        => ~WLess(DistSq(bs[k], bs[m]),
                  WSq(bs[k].radius + waterRestDistance + bs[m].radius))

\* C11: a water particle with no other water particle within
\* waterInteraction has density 1 and near-density 0, and with no obstacle
\* in boundary range applyWaterForces leaves its velocity unchanged.
C11_LoneWaterAtRest ==
    DensityDone =>
        \A k \in 1..Len(call.balls) :
            Lone(call.balls, k) =>
                /\ call.out.before[k] = [density |-> Unit, nearDensity |-> 0]
                /\ NoObstacle(call.balls, k)
                   => call.out.forced[k].velocity = call.balls[k].velocity

\* a moving water particle alone, beside a water pair whose velocities the
\* pass changed
C11_Witness ==
    /\ DensityDone
    /\ \E k \in 1..Len(call.balls) : \E m \in 1..Len(call.balls) :
          /\ Lone(call.balls, k) /\ NoObstacle(call.balls, k)
          /\ call.balls[k].velocity.vx # 0
          /\ call.out.before[k].density = Unit
          /\ call.balls[m].material = "water"
          /\ call.out.forced[m].velocity # call.balls[m].velocity

---------------------------------------------------------------------------
(* Further properties of the frame *)

\* the only particle is a gas particle
SingleGas == Len(balls) = 1 /\ balls[1].material = "gas"

\* more than a pixel inside the walls and the floor
AwayFromBounds(b) ==
    /\ b.pos.x - b.radius > Unit
    /\ b.pos.x + b.radius < screenWidth * Unit - Unit
    /\ b.pos.y + b.radius < screenHeight * Unit - screenPadding - Unit

\* C12: the gas pass takes a single gas particle's velocity (vx, vy) to
\* (vx (1 - gasDrag), (vy - gasBuoyancy)(1 - gasDrag / 2)), and with the
\* default settings the Integrator leaves a single gas particle that was at
\* rest before the gas pass, away from the boundaries, with vy < 0.
C12_GasRises ==
    [][/\ (pc = "gas" /\ SingleGas)
          => balls'[1].velocity =
               [vx |-> Mul(balls[1].velocity.vx, Unit - gasDrag),
                vy |-> Mul(balls[1].velocity.vy - gasBuoyancy, Unit - gasDrag \div 2)]
       /\ (pc = "integrate" /\ SingleGas /\ settings = defaultSettings
             /\ AwayFromBounds(balls[1])
             /\ balls[1].velocity =
                  [vx |-> 0, vy |-> Mul(0 - gasBuoyancy, Unit - gasDrag \div 2)])
          => balls'[1].velocity.vy < 0]_vars

\* the first frame of a gas particle spawned at rest, just integrated
C12_Witness ==
    /\ JustIntegrated /\ frame = 1 /\ SingleGas /\ settings = defaultSettings
    /\ AwayFromBounds(balls[1])
    /\ balls[1].velocity.vx = 0 /\ balls[1].velocity.vy < 0

---------------------------------------------------------------------------
(* The rule of the collision sweep for one pair, on its own *)

PairMaterials == {"solid", "static", "water", "gas"}

PairRestitutions == {0, 250, 850, 1000}

PairVelocities == {<<3000, 4000, -3000, -1000>>, <<-2000, 0, 1000, 500>>}

PairArgs ==
    {[fn |-> "pair", done |-> FALSE,
      a |-> [pos |-> createPos(500 * Unit, 500 * Unit),
             velocity |-> [vx |-> v[1], vy |-> v[2]],
             radius |-> 10 * Unit, shape |-> "circle", material |-> ma],
      b |-> [pos |-> createPos(512 * Unit, 505 * Unit),
             velocity |-> [vx |-> v[3], vy |-> v[4]],
             radius |-> 10 * Unit, shape |-> "circle", material |-> mb],
      settings |-> [defaultSettings EXCEPT !.collisionRestitution = cr]] :
        ma \in PairMaterials, mb \in PairMaterials,
        cr \in PairRestitutions, v \in PairVelocities}

InitPair == NewGame /\ call \in PairArgs

\* the pair as the sweep meets it, and as it meets it the other way round
PairCall ==
    /\ call.fn = "pair" /\ ~call.done
    /\ call' = [call EXCEPT !.done = TRUE] @@
               [out |-> [ahead |-> ResolvePair(call.a, call.b, call.settings),
                         behind |-> ResolvePair(call.b, call.a, call.settings)]]
    /\ UNCHANGED gameVars

SpecPair == InitPair /\ [][PairCall]_vars

PairDone == call.fn = "pair" /\ call.done

\* the restitution and the friction the materials of a pair call for
MaterialRestitution(ms, cr) ==
    IF ms = {"water", "gas"} THEN Mul(cr, 200)
    ELSE IF "water" \in ms THEN Mul(cr, 250)
    ELSE IF "gas" \in ms THEN Mul(cr, 300)
    ELSE cr

MaterialFriction(ms) ==
    IF ms = {"water", "gas"} THEN 40
    ELSE IF "water" \in ms THEN 50
    ELSE IF "gas" \in ms THEN 20
    ELSE 500

SameFluid(a, b) == a.material = b.material /\ a.material \in {"water", "gas"}

\* C13: a pair the sweep resolves is resolved with the restitution and the
\* friction of its set of materials (water with gas x 0.2 and 0.04, other
\* water x 0.25 and 0.05, other gas x 0.3 and 0.02, solid/static only x 1
\* and 0.5), whichever of the two comes first.
C13_RuleByMaterials ==
    (PairDone /\ ~SameFluid(call.a, call.b))
    => /\ call.out.ahead =
            resolveCollisionCustom(call.a, call.b,
                MaterialRestitution({call.a.material, call.b.material},
                                    call.settings.collisionRestitution),
                MaterialFriction({call.a.material, call.b.material}))
       /\ call.out.behind =
            resolveCollisionCustom(call.b, call.a,
                MaterialRestitution({call.a.material, call.b.material},
                                    call.settings.collisionRestitution),
                MaterialFriction({call.a.material, call.b.material}))

\* a gas particle ahead of a water particle, resolved with an impulse
C13_Witness ==
    /\ PairDone /\ call.a.material = "gas" /\ call.b.material = "water"
    /\ call.settings.collisionRestitution = 850
    /\ call.out.ahead.resolved
    /\ call.out.ahead.b1.velocity # call.a.velocity
    /\ call.out.ahead # resolveCollisionCustom(call.a, call.b, Mul(850, 250), 50)

---------------------------------------------------------------------------
(* Pairs of one fluid in the sweeps of the frame *)

\* every overlapping pair of the scene is water with water or gas with gas
OnlyFluidOverlaps(bs) ==
    \A i \in 1..Len(bs) : \A j \in 1..Len(bs) :
        (i < j /\ Overlapping(bs[i], bs[j])) => SameFluid(bs[i], bs[j])

DeepFluidOverlap(bs) ==
    \E i \in 1..Len(bs) : \E j \in 1..Len(bs) :
        /\ i < j /\ SameFluid(bs[i], bs[j])
        /\ WLess(DistSq(bs[i], bs[j]), WSq(bs[i].radius))

\* C14: a sweep over a scene whose overlapping pairs are all water-water or
\* gas-gas pairs moves nothing, changes no velocity and resolves nothing, so
\* the loop ends with it.
C14_FluidPairsSkipped ==
    [][(pc = "collide" /\ sweeps < maxCollisionSolves /\ OnlyFluidOverlaps(balls))
         => (balls' = balls /\ ~anyResolved' /\ pc' = "idle")]_vars

\* a sweep has ended the loop over a pair of one fluid that overlaps by more
\* than a radius
C14_Witness ==
    /\ pc = "idle" /\ sweeps = 1 /\ ~anyResolved /\ frame > 0
    /\ Len(balls) > 1 /\ DeepFluidOverlap(balls)

---------------------------------------------------------------------------
(* Delete requests *)

\* the centre of b is closer to the point p than its radius plus 15
Doomed(b, p) ==
    WLess(WAdd(WSq(b.pos.x - p.x * Unit), WSq(b.pos.y - p.y * Unit)),
          WSq(b.radius + 15 * Unit))

DeleteRequest(in) == in.left /\ in.shift

\* C15: a delete request at p leaves exactly the particles whose centre is
\* not closer to p than their radius plus 15, in their order and with their
\* state, and none of the particles left is that close to p.
C15_DeleteExact ==
    [][(pc = "idle" /\ pc' = "cursor" /\ DeleteRequest(input'))
         => (/\ balls' = SelectSeq(balls, LAMBDA b : ~Doomed(b, input'))
             /\ \A k \in 1..Len(balls') : ~Doomed(balls'[k], input'))]_vars

\* a delete request that found the static particle of the scene and the
\* particle spawned the frame before, and left the static one
C15_Witness ==
    /\ pc = "cursor" /\ DeleteRequest(input) /\ frame = 2 /\ ballSpawnTimer = 1
    /\ Len(balls) = 1 /\ balls[1].material = "static"
    /\ ~Doomed(balls[1], input)

---------------------------------------------------------------------------
(* A spatialHash under insert and Clear calls *)

MaxOps == 4

HashCells == {<<0, 0>>, <<-1, 0>>, <<0, -1>>, <<1, 1>>}

HashIndices == {0, 1}

\* the grid, the insert calls since the last Clear and the last call
InitHash ==
    /\ NewGame
    /\ call = [fn |-> "hash", h |-> newSpatialHash(colliderCellSize),
               since |-> <<>>, ops |-> 0, last |-> "newSpatialHash"]

HashInsert ==
    /\ call.fn = "hash" /\ call.ops < MaxOps
    /\ \E index \in HashIndices : \E c \in HashCells :
           call' = [call EXCEPT !.h = insert(@, index, c[1], c[2]),
                                !.since = Append(@, [index |-> index, at |-> c]),
                                !.ops = @ + 1,
                                !.last = "insert"]
    /\ UNCHANGED gameVars

HashClear ==
    /\ call.fn = "hash" /\ call.ops < MaxOps
    /\ call' = [call EXCEPT !.h = Clear(@), !.since = <<>>, !.ops = @ + 1,
                            !.last = "Clear"]
    /\ UNCHANGED gameVars

SpecHash == InitHash /\ [][HashInsert \/ HashClear]_vars

\* the indices of the insert calls at cell c, in the order of the calls
InsertedAt(calls, c) ==
    LET at == SelectSeq(calls, LAMBDA e : e.at = c)
    IN  [n \in 1..Len(at) |-> at[n].index]

NonEmptyKeys(h) == {key \in DOMAIN h.buckets : h.buckets[key] # <<>>}

\* C16: right after Clear every cell reads empty; cell(x, y) is the
\* sequence of the indices inserted at (x, y) since the last Clear, in the
\* order of insertion; usedKeys lists the keys of the non-empty buckets,
\* each once.
C16_BucketsExact ==
    call.fn = "hash" =>
      /\ call.last = "Clear" => \A c \in HashCells : Len(cell(call.h, c[1], c[2])) = 0
      /\ \A c \in HashCells : cell(call.h, c[1], c[2]) = InsertedAt(call.since, c)
      /\ \A n \in 1..Len(call.h.usedKeys) : \A m \in 1..Len(call.h.usedKeys) :
             call.h.usedKeys[n] = call.h.usedKeys[m] => n = m
      /\ {call.h.usedKeys[n] : n \in 1..Len(call.h.usedKeys)} = NonEmptyKeys(call.h)

\* two indices inserted in one cell after a Clear that emptied the bucket
\* of another cell
C16_Witness ==
    /\ call.fn = "hash" /\ Len(call.since) = 2 /\ Len(call.h.usedKeys) = 1
    /\ \E key \in DOMAIN call.h.buckets :
           /\ Len(call.h.buckets[key]) = 0
           /\ ~Used(call.h, key)

---------------------------------------------------------------------------
(* hashKey on its own *)

\* cell coordinates of the signed 32-bit range: its ends, the values around
\* zero and the values around the 16-bit carry
KeyValues ==
    {-2147483647 - 1, -65537, -65536, -1, 0, 1, 65535, 65536, 2147483647}

KeyArgs ==
    {[fn |-> "key", done |-> FALSE, ix |-> ix, iy |-> iy, jx |-> jx, jy |-> jy] :
        ix \in KeyValues, iy \in KeyValues, jx \in KeyValues, jy \in KeyValues}

InitKey == NewGame /\ call \in KeyArgs

KeyCall ==
    /\ call.fn = "key" /\ ~call.done
    /\ call' = [call EXCEPT !.done = TRUE] @@
               [out |-> [first |-> hashKey(call.ix, call.iy),
                         second |-> hashKey(call.jx, call.jy)]]
    /\ UNCHANGED gameVars

SpecKey == InitKey /\ [][KeyCall]_vars

KeyDone == call.fn = "key" /\ call.done

\* C17: two cells of the signed 32-bit range with the same key are the same
\* cell.
C17_KeyInjective ==
    (KeyDone /\ call.out.first = call.out.second)
    => (call.ix = call.jx /\ call.iy = call.jy)

\* the key of a cell with two negative coordinates met twice, and apart
\* from the key of the cell with the same low 16 bits
C17_Witness ==
    /\ KeyDone /\ call.ix < 0 /\ call.iy < 0
    /\ call.out.first = call.out.second
    /\ call.out.first # hashKey(call.ix + 65536, call.iy + 65536)

---------------------------------------------------------------------------
(* The update check started from Update (src/unnamed/part_001:557-577) *)

\* The update fields of the Game and the goroutines of the update check,
\* each with the outcome of checkForUpdates and the statement it is at.
NoUpdate ==
    [fn |-> "update", updateButtonHover |-> FALSE, updateChecking |-> FALSE,
     updateAvailable |-> FALSE, updateMessage |-> "", routines |-> <<>>]

UpdateStarts ==
    {[balls |-> <<StaticAt(500, 500), StaticAt(512, 500)>>,
      settings |-> defaultSettings, count |-> 1]}

UpdateInputs ==
    {NoInput,
     [NoInput EXCEPT !.left = TRUE, !.x = 1800, !.y = 20],
     [NoInput EXCEPT !.esc = TRUE]}

DrawCursors == {<<1800, 20>>, <<506, 500>>}

InitUpdate == SceneFrom(UpdateStarts) /\ call = NoUpdate

\* The goroutine writes updateChecking without synchronisation: a read by
\* Update returns the value last written by Update itself or, once the
\* goroutine has written, possibly still the true it wrote before.
Readable(c) == {c.updateChecking, c.updateChecking \/ c.updateMessage # ""}

\* the click without the test of updateChecking
ClickedUnguarded(c, in, seen) ==
    IF in.left /\ c.updateButtonHover
    THEN [c EXCEPT !.updateChecking = TRUE, !.updateMessage = "",
                   !.routines = Append(@, [outcome |-> "none", at |-> "check"])]
    ELSE c

\* lines 558-561: the click on the button starts a check
Clicked(c, in, seen) ==
    IF in.left /\ c.updateButtonHover /\ ~seen
    THEN [c EXCEPT !.updateChecking = TRUE, !.updateMessage = "",
                   !.routines = Append(@, [outcome |-> "none", at |-> "check"])]
    ELSE c

\* lines 441-646 with the click test of line 558, which a frame with the
\* menu open does not reach
UpdateInput ==
    /\ pc = "idle"
    /\ frame < MaxFrames
    /\ \E in \in UpdateInputs :
         /\ InputFrame(in)
         /\ \E seen \in Readable(call) :
                call' = IF showMenu' THEN call ELSE Clicked(call, in, seen)
    /\ frame' = frame + 1
    /\ UNCHANGED <<sweeps, anyResolved>>

\* lines 1211-1220: the cursor over the button
OverButton(m) ==
    /\ m[1] >= screenWidth - 140 - 10 /\ m[1] <= screenWidth - 10
    /\ m[2] >= 10 /\ m[2] <= 10 + 30

\* Draw, between two calls of Update
Draw ==
    /\ pc = "idle" /\ call.fn = "update" /\ ~showMenu
    /\ \E m \in DrawCursors :
           call' = [call EXCEPT !.updateButtonHover = OverButton(m)]
    /\ UNCHANGED gameVars

CheckOutcomes == {"error", "current", "newer"}

\* line 562: checkForUpdates returns an error, nil or a release
CheckReturns ==
    /\ call.fn = "update"
    /\ \E k \in 1..Len(call.routines) : \E o \in CheckOutcomes :
           /\ call.routines[k].at = "check"
           /\ call' = [call EXCEPT !.routines[k] = [outcome |-> o, at |-> "message"]]
    /\ UNCHANGED gameVars

MessageOf(o) ==
    CASE o = "error" -> "Error"
      [] o = "current" -> "Up to date!"
      [] o = "newer" -> "New version"

\* lines 564, 569, 572
WriteMessage ==
    /\ call.fn = "update"
    /\ \E k \in 1..Len(call.routines) :
           /\ call.routines[k].at = "message"
           /\ call' = [call EXCEPT
                         !.updateMessage = MessageOf(call.routines[k].outcome),
                         !.routines[k].at = IF call.routines[k].outcome = "error"
                                            THEN "checking" ELSE "available"]
    /\ UNCHANGED gameVars

\* lines 570, 573
WriteAvailable ==
    /\ call.fn = "update"
    /\ \E k \in 1..Len(call.routines) :
           /\ call.routines[k].at = "available"
           /\ call' = [call EXCEPT
                         !.updateAvailable = (call.routines[k].outcome = "newer"),
                         !.routines[k].at = "checking"]
    /\ UNCHANGED gameVars

\* lines 565-566, 575-576: updateChecking cleared and the goroutine over
WriteChecking ==
    /\ call.fn = "update"
    /\ \E k \in 1..Len(call.routines) :
           /\ call.routines[k].at = "checking"
           /\ call' = [call EXCEPT !.updateChecking = FALSE,
                                    !.routines = RemoveAt(@, k)]
    /\ UNCHANGED gameVars

NextUpdate ==
    \/ UpdateInput
    \/ Cursor
    \/ Water
    \/ Gas
    \/ Integrate
    \/ CollisionSweep
    \/ CollisionDone
    \/ Draw
    \/ CheckReturns
    \/ WriteMessage
    \/ WriteAvailable
    \/ WriteChecking

\* a started goroutine runs, and checkForUpdates returns
SpecUpdate ==
    /\ InitUpdate
    /\ [][NextUpdate]_vars
    /\ WF_vars(CheckReturns)
    /\ WF_vars(WriteMessage)
    /\ WF_vars(WriteAvailable)
    /\ WF_vars(WriteChecking)

\* a step of a goroutine of the update check
RoutineStep ==
    /\ call'.routines # call.routines
    /\ Len(call'.routines) <= Len(call.routines)

\* C18: a step of the update check leaves the particle array and every
\* field of the game but updateMessage, updateAvailable and updateChecking
\* as they are; at most one check is in flight, a check starting only when
\* updateChecking is false; and updateChecking, once true, becomes false
\* again whatever checkForUpdates returns.
C18_UpdateCheck ==
    /\ [][RoutineStep => (UNCHANGED gameVars
                           /\ call'.updateButtonHover = call.updateButtonHover)]_vars
    /\ [][(Len(call'.routines) > Len(call.routines))
            => (~call.updateChecking /\ call'.updateChecking)]_vars
    /\ [](Len(call.routines) <= 1)
    /\ (call.updateChecking ~> ~call.updateChecking)

\* a check that found a new version has ended in the middle of the
\* collision sweeps of a frame
C18_Witness ==
    /\ call.fn = "update" /\ pc = "collide" /\ sweeps > 0
    /\ call.routines = <<>> /\ ~call.updateChecking
    /\ call.updateAvailable /\ call.updateMessage = "New version"

---------------------------------------------------------------------------
(* selfUpdate (src/unnamed/part_001:1364-1492) *)

\* The file at the executable's path (currentExe) and the file at its
\* backup path (backupPath) by their contents, the open handle on the
\* target (currentExeFile), the statement selfUpdate is at and what it
\* returned.  A call of the operating system succeeds or fails.
Systems == {"windows", "darwin", "linux", "freebsd"}

SelfUpdateArgs ==
    {[fn |-> "selfUpdate", goos |-> os, at |-> "checkForUpdates",
      currentExe |-> "old", backupPath |-> stale, currentExeFile |-> FALSE,
      returned |-> "no", err |-> "no"] :
        os \in Systems, stale \in {"none", "stale"}}

InitSelfUpdate == NewGame /\ call \in SelfUpdateArgs

Running(at) == call.fn = "selfUpdate" /\ call.returned = "no" /\ call.at = at

\* return with the deferred Close of currentExeFile
Returned(c, err) ==
    [c EXCEPT !.returned = IF err = "no" THEN "nil" ELSE "error", !.err = err,
              !.currentExeFile = FALSE]

\* lines 1366-1374
CheckForUpdates ==
    /\ Running("checkForUpdates")
    /\ \E o \in CheckOutcomes :
           call' = CASE o = "error" -> Returned(call, "checkForUpdates")
                     [] o = "current" -> Returned(call, "no")
                     [] o = "newer" -> [call EXCEPT !.at = "asset"]
    /\ UNCHANGED gameVars

\* lines 1379-1404: the asset of this system among the release's assets
FindAsset ==
    /\ Running("asset")
    /\ \E found \in BOOLEAN :
           call' = IF call.goos \notin {"windows", "darwin", "linux"}
                   THEN Returned(call, "unsupported operating system")
                   ELSE IF ~found THEN Returned(call, "no compatible release")
                   ELSE [call EXCEPT !.at = "download"]
    /\ UNCHANGED gameVars

\* lines 1409-1448: download, extraction and the search for the executable
Unpack ==
    /\ Running("download")
    /\ \E o \in {"download", "temp directory", "extract", "walk",
                  "executable not found", "no"} :
           call' = IF o = "no" THEN [call EXCEPT !.at = "os.Executable"]
                   ELSE Returned(call, o)
    /\ UNCHANGED gameVars

\* lines 1451-1454
Executable ==
    /\ Running("os.Executable")
    /\ \E ok \in BOOLEAN :
           call' = IF ok THEN [call EXCEPT !.at = "backup"]
                   ELSE Returned(call, "os.Executable")
    /\ UNCHANGED gameVars

\* os.Rename(from, to) of the two paths: Windows refuses to replace the
\* target while currentExeFile holds it open
RenameAllowed(c, to) == ~(c.goos = "windows" /\ to = "currentExe" /\ c.currentExeFile)

BackedUp(c) == [c EXCEPT !.backupPath = c.currentExe, !.currentExe = "none"]

\* os.Rename(backupPath, currentExe), its error dropped
Restored(c, ok) ==
    IF ok /\ RenameAllowed(c, "currentExe")
    THEN [c EXCEPT !.currentExe = c.backupPath, !.backupPath = "none"]
    ELSE c

\* lines 1457-1460
Backup ==
    /\ Running("backup")
    /\ \E ok \in BOOLEAN :
           call' = IF ok THEN [BackedUp(call) EXCEPT !.at = "os.Open"]
                   ELSE Returned(call, "backup")
    /\ UNCHANGED gameVars

\* lines 1463-1468
OpenNew ==
    /\ Running("os.Open")
    /\ \E ok \in BOOLEAN : \E restore \in BOOLEAN :
           call' = IF ok THEN [call EXCEPT !.at = "os.OpenFile"]
                   ELSE Returned(Restored(call, restore), "open")
    /\ UNCHANGED gameVars

\* lines 1470-1475: the target created empty
CreateTarget ==
    /\ Running("os.OpenFile")
    /\ \E ok \in BOOLEAN : \E restore \in BOOLEAN :
           call' = IF ok
                   THEN [call EXCEPT !.at = "io.Copy", !.currentExe = "partial",
                                     !.currentExeFile = TRUE]
                   ELSE Returned(Restored(call, restore), "create")
    /\ UNCHANGED gameVars

\* lines 1477-1480
Copy ==
    /\ Running("io.Copy")
    /\ \E ok \in BOOLEAN : \E restore \in BOOLEAN :
           call' = IF ok THEN [call EXCEPT !.at = "os.Remove", !.currentExe = "new"]
                   ELSE Returned(Restored(call, restore), "copy")
    /\ UNCHANGED gameVars

\* lines 1483-1487
RemoveBackup ==
    /\ Running("os.Remove")
    /\ \E ok \in BOOLEAN :
           call' = Returned([call EXCEPT !.backupPath = IF ok THEN "none" ELSE @], "no")
    /\ UNCHANGED gameVars

NextSelfUpdate ==
    \/ CheckForUpdates
    \/ FindAsset
    \/ Unpack
    \/ Executable
    \/ Backup
    \/ OpenNew
    \/ CreateTarget
    \/ Copy
    \/ RemoveBackup

SpecSelfUpdate == InitSelfUpdate /\ [][NextSelfUpdate]_vars

\* C19 (as stated): when selfUpdate returns after a failure to open the
\* new binary, to create the target or to copy, the old executable is back
\* at its path, and at every return the path holds the complete old or the
\* complete new binary.
C19_ExecutableNeverLost ==
    (call.fn = "selfUpdate" /\ call.returned # "no")
    => /\ call.err \in {"open", "create", "copy"} => call.currentExe = "old"
       /\ call.currentExe \in {"old", "new"}

---------------------------------------------------------------------------
(* The end of the collision loop *)

\* C20 (as stated): a sweep that resolves no overlap ends the loop, and so
\* does a sweep that leaves every position and velocity as it was; after
\* any other sweep the loop goes on, up to maxCollisionSolves sweeps.
C20_FixedPointEndsLoop ==
    [][(pc = "collide" /\ sweeps < maxCollisionSolves)
         => (/\ ~anyResolved' => pc' = "idle"
             /\ balls' = balls => pc' = "idle"
             /\ (anyResolved' /\ balls' # balls)
                  => (pc' = "collide" /\ sweeps' <= maxCollisionSolves))]_vars

---------------------------------------------------------------------------
(* Further properties of resolveCollisionCustom *)

\* the relative velocity of the pair of the call along its contact normal,
\* and along the tangent
NormalVelocity(a, b) ==
    Mul(b.velocity.vx - a.velocity.vx, Contact(a, b).nx)
      + Mul(b.velocity.vy - a.velocity.vy, Contact(a, b).ny)

TangentVelocity(a, b) ==
    Mul(b.velocity.vx - a.velocity.vx, -Contact(a, b).ny)
      + Mul(b.velocity.vy - a.velocity.vy, Contact(a, b).nx)

VelocitiesKept ==
    /\ call.out.b1.velocity = call.b1.velocity
    /\ call.out.b2.velocity = call.b2.velocity

Corrected ==
    /\ call.out.b1.pos = Shifted(call.b1, call.b2, Contact(call.b1, call.b2))[1].pos
    /\ call.out.b2.pos = Shifted(call.b1, call.b2, Contact(call.b1, call.b2))[2].pos

InContact == ResolveDone /\ call.out.resolved /\ (Mobile(call.b1) \/ Mobile(call.b2))

\* C21 (as stated): a pair in contact whose relative velocity along the
\* normal is >= 0 gets the positional correction and keeps both velocities.
C21_NoImpulseFromZeroUp ==
    (InContact /\ NormalVelocity(call.b1, call.b2) >= 0)
    => (Corrected /\ VelocitiesKept)

\* C21 (amended): a pair in contact whose relative velocity along the
\* normal is > 0, or is 0 with friction 0, gets the positional correction
\* and keeps both velocities.
C21_NoImpulseWhenSeparating ==
    (InContact /\ (\/ NormalVelocity(call.b1, call.b2) > 0
                   \/ (NormalVelocity(call.b1, call.b2) = 0 /\ call.friction = 0)))
    => (Corrected /\ VelocitiesKept)

\* a separating pair that slides along its tangent, with friction, moved
\* apart
C21_Witness ==
    /\ InContact /\ Mobile(call.b1) /\ Mobile(call.b2)
    /\ NormalVelocity(call.b1, call.b2) > 0
    /\ TangentVelocity(call.b1, call.b2) # 0 /\ call.friction # 0
    /\ call.out.b1.pos # call.b1.pos
    /\ VelocitiesKept

---------------------------------------------------------------------------
(* The contact normal of two nearly coincident balls.  The grid of Contact
   cannot tell a distance below minimumSeparation from 0, so lines 287-305
   are taken here on displacements in hundred-millionths of a pixel. *)

\* minimumSeparation = 0.0001 in hundred-millionths
minimumSeparationFine == 10000

\* math.Sqrt, cut to the grid
RECURSIVE FineSqrtIn(_, _, _)
FineSqrtIn(n, lo, hi) ==
    IF lo >= hi THEN lo
    ELSE IF ((lo + hi + 1) \div 2) * ((lo + hi + 1) \div 2) <= n
         THEN FineSqrtIn(n, (lo + hi + 1) \div 2, hi)
         ELSE FineSqrtIn(n, lo, (lo + hi + 1) \div 2 - 1)

FineSqrt(n) == FineSqrtIn(n, 0, 46000)

\* lines 297-300: distSq clamped and its root
ClampedDistance(dx, dy) ==
    IF dx * dx + dy * dy < minimumSeparationFine * minimumSeparationFine
    THEN minimumSeparationFine
    ELSE FineSqrt(dx * dx + dy * dy)

\* lines 301-305: the normal, in thousandths
NormalAt(nx, ny) == [nx |-> IF nx = 0 /\ ny = 0 THEN Unit ELSE nx, ny |-> ny]

ContactNormal(dx, dy) ==
    NormalAt(Div(dx, ClampedDistance(dx, dy)), Div(dy, ClampedDistance(dx, dy)))

NormalOffsets == {-30000, -6000, -100, 0, 100, 5000, 8000, 10000, 30000}

\* the velocity of the second ball, the first one at rest
NormalVelocities == {<<-3000, -4000>>, <<4000, 0>>, <<0, 5000>>}

NormalArgs ==
    {[fn |-> "normal", done |-> FALSE, dx |-> dx, dy |-> dy,
      b1 |-> createBall(createPos(500 * Unit, 500 * Unit), 10 * Unit, "circle"),
      b2 |-> [createBall(createPos(500 * Unit, 500 * Unit), 10 * Unit, "circle")
                 EXCEPT !.velocity = [vx |-> v[1], vy |-> v[2]], !.material = m],
      collisionRestitution |-> 850, friction |-> 500] :
        dx \in NormalOffsets, dy \in NormalOffsets, v \in NormalVelocities,
        m \in {"solid", "static"}}

InitNormal == NewGame /\ call \in NormalArgs

NormalCall ==
    /\ call.fn = "normal" /\ ~call.done
    /\ call' = [call EXCEPT !.done = TRUE] @@
               [out |-> [normal |-> ContactNormal(call.dx, call.dy),
                         pair |-> Impulsed(call.b1, call.b2,
                                           ContactNormal(call.dx, call.dy),
                                           call.collisionRestitution, call.friction)]]
    /\ UNCHANGED gameVars

SpecNormal == InitNormal /\ [][NormalCall]_vars

NormalDone == call.fn = "normal" /\ call.done

\* nx^2 + ny^2 is 1 within half a percent
UnitLength(n) == Abs(n.nx * n.nx + n.ny * n.ny - Unit * Unit) <= 5 * Unit

\* C22 (as stated): the normal of a pair closer than minimumSeparation is
\* (1, 0), and the normal of every pair has length 1.
C22_UnitNormal ==
    NormalDone =>
      /\ call.dx * call.dx + call.dy * call.dy < minimumSeparationFine * minimumSeparationFine
            => call.out.normal = [nx |-> Unit, ny |-> 0]
      /\ UnitLength(call.out.normal)


\* the relative velocity of b1 and b2 along the normal n
Along(b1, b2, n) ==
    Mul(b2.velocity.vx - b1.velocity.vx, n.nx) + Mul(b2.velocity.vy - b1.velocity.vy, n.ny)

\* C23 (as stated): a pair approaching along its normal with relative
\* velocity v < 0 leaves the impulse step with relative normal velocity
\* -restitution x v (within one percent of v, the rounding of the grid),
\* the second ball mobile or static.
C23_RestitutionReversal ==
    (NormalDone /\ Along(call.b1, call.b2, call.out.normal) < 0)
    => Abs(Along(call.out.pair[1], call.out.pair[2], call.out.normal)
             + Mul(call.collisionRestitution,
                   Along(call.b1, call.b2, call.out.normal)))
         <= Abs(Along(call.b1, call.b2, call.out.normal)) \div 100 + 5

---------------------------------------------------------------------------
(* Frames at the ends of the range of ballsize *)

\* values the wheel can have left in ballsize: the ends of its range and one
\* between the clamps of water and gas
SizeStarts == {[balls |-> <<>>, settings |-> defaultSettings, count |-> 2]}

Sizes == {4 * Unit, 25 * Unit, 120 * Unit}

SizeInputs ==
    {[NoInput EXCEPT !.wheel = -1],
     [NoInput EXCEPT !.wheel = 1],
     [NoInput EXCEPT !.wheel = -1, !.shift = TRUE],
     [NoInput EXCEPT !.left = TRUE, !.key = 1, !.x = 506, !.y = 500],
     [NoInput EXCEPT !.left = TRUE, !.key = 4, !.wheel = -1, !.x = 506, !.y = 500],
     [NoInput EXCEPT !.left = TRUE, !.key = 5, !.x = 506, !.y = 500],
     [NoInput EXCEPT !.left = TRUE, !.key = 6, !.wheel = 1, !.x = 506, !.y = 500]}

InitSize == SceneOf(SizeStarts, Sizes) /\ call = NoCall

SizeInput ==
    /\ pc = "idle"
    /\ frame < MaxFrames
    /\ \E in \in SizeInputs : InputFrame(in)
    /\ frame' = frame + 1
    /\ UNCHANGED <<sweeps, anyResolved, call>>

NextSize ==
    \/ SizeInput
    \/ Cursor
    \/ Water
    \/ Gas
    \/ Integrate
    \/ CollisionSweep
    \/ CollisionDone

SpecSize == InitSize /\ [][NextSize]_vars

\* the radius of a particle lies in the range of its material
RadiusInRange(b) ==
    CASE b.material = "water" -> 3 * Unit <= b.radius /\ b.radius <= 20 * Unit
      [] b.material = "gas" -> 4 * Unit <= b.radius /\ b.radius <= 30 * Unit
      [] OTHER -> 4 * Unit <= b.radius /\ b.radius <= 120 * Unit

\* C24: ballsize stays in [4, 120]; every particle has a radius > 0 within
\* the range of its material; and the steps of a frame after the input
\* handling leave the number of particles and every radius as they are.
C24_RadiusPositive ==
    /\ [](4 * Unit <= ballsize /\ ballsize <= 120 * Unit)
    /\ [](\A k \in 1..Len(balls) : balls[k].radius > 0 /\ RadiusInRange(balls[k]))
    /\ [][(pc # "idle")
            => (/\ Len(balls') = Len(balls)
                /\ \A k \in 1..Len(balls) : balls'[k].radius = balls[k].radius)]_vars

\* with ballsize at its upper end, a spawned gas particle at the upper end
\* of the range of gas
C24_Witness ==
    /\ ballsize = 120 * Unit /\ pc = "idle" /\ frame > 0
    /\ \E k \in 1..Len(balls) : balls[k].material = "gas" /\ balls[k].radius = 30 * Unit

---------------------------------------------------------------------------
(* Frames with the settings menu open *)

\* C25: a step that ends with the menu open leaves the particle array
\* (count, positions, velocities) and the spawn timer as they were, and a
\* frame with the menu open ends without any of the physics steps.
C25_MenuFreezes ==
    [][showMenu'
        => (/\ balls' = balls
            /\ ballSpawnTimer' = ballSpawnTimer
            /\ pc' \in {"idle", "exit"})]_vars

\* a falling particle and a running spawn timer, both kept over a frame with
\* the menu open: the timer of the spawn of frame 1 is still 2 after frame 3
C25_Witness ==
    /\ showMenu /\ prevEscPressed = FALSE /\ frame = 3 /\ pc = "idle"
    /\ ballSpawnTimer = 2
    /\ \E k \in 1..Len(balls) : balls[k].velocity.vy # 0

---------------------------------------------------------------------------
(* The spawn timer over frames with the left button held *)

SpawnFrames == 7

SpawnStarts ==
    {[balls |-> <<>>, settings |-> defaultSettings, count |-> 1],
     [balls |-> <<>>, settings |-> defaultSettings, count |-> 50]}

\* the left button held with the static shape, the button released, ESC, and
\* the wheel turned either way, with Shift for steps of five in the menu
SpawnInputs ==
    {[NoInput EXCEPT !.left = TRUE, !.key = 6, !.x = 506, !.y = 500],
     NoInput,
     [NoInput EXCEPT !.esc = TRUE],
     [NoInput EXCEPT !.esc = TRUE, !.wheel = 1, !.shift = TRUE],
     [NoInput EXCEPT !.wheel = -1]}

\* history of the frames: whether the frame before was one with the menu
\* closed and the left button held without Shift
LastFrame(held) == [fn |-> "frame", done |-> FALSE, held |-> held]

InitSpawn == SceneFrom(SpawnStarts) /\ call = LastFrame(FALSE)

SpawnInput ==
    /\ pc = "idle"
    /\ frame < SpawnFrames
    /\ \E in \in SpawnInputs :
         /\ InputFrame(in)
         /\ call' = LastFrame(~showMenu' /\ in.left /\ ~in.shift)
    /\ frame' = frame + 1
    /\ UNCHANGED <<sweeps, anyResolved>>

NextSpawn ==
    \/ SpawnInput
    \/ Cursor
    \/ Water
    \/ Gas
    \/ Integrate
    \/ CollisionSweep
    \/ CollisionDone

SpecSpawn == InitSpawn /\ [][NextSpawn]_vars

\* the step is the input handling of a frame with the menu closed and the
\* left button held without Shift
HeldFrame == pc = "idle" /\ pc' = "cursor" /\ input'.left /\ ~input'.shift

ClusterAppended ==
    /\ Len(balls') = Len(balls) + spawnClusterCount
    /\ SubSeq(balls', 1, Len(balls)) = balls

SpawnCountInRange == 1 <= spawnClusterCount /\ spawnClusterCount <= 50

TimerCarried ==
    [][(pc # "idle") => (ballSpawnTimer' = ballSpawnTimer /\ Len(balls') = Len(balls))]_vars

\* C26 as stated: the first frame of a hold (the button was not held in the
\* frame before) appends a cluster of spawnClusterCount particles, the
\* frames of a hold after a spawn append nothing for two frames and then
\* append again, and spawnClusterCount stays in [1, 50].
C26_SpawnFromFirstFrame ==
    /\ []SpawnCountInRange
    /\ TimerCarried
    /\ [][(HeldFrame /\ ~call.held) => ClusterAppended]_vars
    /\ [][(HeldFrame /\ call.held)
            => IF ballSpawnTimer = 0 THEN ClusterAppended /\ ballSpawnTimer' = 2
               ELSE balls' = balls /\ ballSpawnTimer' = ballSpawnTimer - 1]_vars

\* C26 amended: a frame with the button held appends a cluster exactly when
\* the spawn timer is 0 at its start, and leaves the timer at 2; with the
\* timer at 2 or 1 it appends nothing and counts the timer down by one; the
\* steps after the input handling keep the timer. So from a frame that
\* starts with the timer at 0 a hold appends on that frame and on every 3rd
\* frame after it.
C26_SpawnByTimer ==
    /\ [](SpawnCountInRange /\ 0 <= ballSpawnTimer /\ ballSpawnTimer <= 2)
    /\ TimerCarried
    /\ [][HeldFrame
            => IF ballSpawnTimer = 0 THEN ClusterAppended /\ ballSpawnTimer' = 2
               ELSE balls' = balls /\ ballSpawnTimer' = ballSpawnTimer - 1]_vars

\* three clusters of one particle by the end of frame 7: with at most one
\* cluster in three frames these are the clusters of frames 1, 4 and 7
C26_Witness ==
    /\ frame = 7 /\ pc = "idle" /\ call.held
    /\ spawnClusterCount = 1 /\ Len(balls) = 3 /\ ballSpawnTimer = 2

---------------------------------------------------------------------------
(* Static particles *)

StaticsAtRest ==
    \A k \in 1..Len(balls) :
        balls[k].material = "static" => balls[k].velocity = [vx |-> 0, vy |-> 0]

\* C27: a static particle has velocity (0, 0) in every reachable state, and
\* no step of a frame after the input handling moves it.
C27_StaticAtRest ==
    /\ []StaticsAtRest
    /\ [][(pc # "idle")
            => \A k \in 1..Len(balls) :
                   balls[k].material = "static" => balls'[k].pos = balls[k].pos]_vars

---------------------------------------------------------------------------
(* The grids of the Game kept from frame to frame *)

\* lines 118-129: the grids and waterIndexMap of NewGame; reads and mapReads
\* are the reads of the last pass
NewGrids ==
    [fn |-> "grids", done |-> FALSE,
     collider |-> newSpatialHash(maxSpawnRadius * 2),
     waterCollider |-> newSpatialHash(waterRestDistance * 2),
     solidCollider |-> newSpatialHash(maxSpawnRadius * 2),
     gasCollider |-> newSpatialHash(gasRestDistance * 2),
     waterIndexMap |-> <<>>,
     reads |-> {},
     mapReads |-> {}]

\* the indices returned by h.cell for the nine cells around c
CellReads(name, h, c) ==
    UNION {{[grid |-> name,
             index |-> cell(h, c.x + neighborOffsets[k].dx, c.y + neighborOffsets[k].dy)[n],
             x |-> c.x + neighborOffsets[k].dx,
             y |-> c.y + neighborOffsets[k].dy] :
               n \in 1..Len(cell(h, c.x + neighborOffsets[k].dx, c.y + neighborOffsets[k].dy))} :
           k \in 1..Len(neighborOffsets)}

\* the reads of grid h by the scans of the balls at indices, each around its
\* cached cell in grid at
GridReads(name, h, at, bs, indices) ==
    UNION {CellReads(name, h, cellCoordOf(at, bs[indices[n]])) : n \in 1..Len(indices)}

\* lines 834-845: waterIndexMap[ballIdx] = idx (0-based: the place in
\* waterIndices less one)
IndexMap(indices) ==
    [i \in {indices[n] : n \in 1..Len(indices)} |->
        (CHOOSE n \in 1..Len(indices) : indices[n] = i) - 1]

\* lines 899-904: the lookups of waterIndexMap for the neighbours above
\* ballIdx met in the water grid
MapReads(m, h, bs, indices) ==
    UNION {{[key |-> r.index,
             ok |-> r.index \in DOMAIN m,
             slot |-> IF r.index \in DOMAIN m THEN m[r.index] ELSE 0] :
               r \in {q \in CellReads("water", h, cellCoordOf(h, bs[indices[n]])) :
                          q.index > indices[n]}} :
           n \in 1..Len(indices)}

\* WaterGrids without the two Clear calls of lines 802-803
WaterGridsKept(g, bs) ==
    IF Len(bs) = 0 THEN [g EXCEPT !.reads = {}, !.mapReads = {}]
    ELSE IF waterIndices(bs) = <<>>
    THEN [g EXCEPT !.reads = {}, !.mapReads = {}]
    ELSE LET w == InsertAll(g.waterCollider, bs, waterIndices(bs))
             sc == InsertAll(g.solidCollider, bs, solidIndices(bs))
             m == IndexMap(waterIndices(bs))
         IN  [g EXCEPT !.waterCollider = w,
                       !.solidCollider = sc,
                       !.waterIndexMap = m,
                       !.reads = GridReads("water", w, w, bs, waterIndices(bs))
                                 \cup GridReads("solid", sc, w, bs, waterIndices(bs)),
                       !.mapReads = MapReads(m, w, bs, waterIndices(bs))]

\* applyWaterForces, lines 797-955: what the pass does to the grids
WaterGrids(g, bs) ==
    IF Len(bs) = 0 THEN [g EXCEPT !.reads = {}, !.mapReads = {}]
    ELSE IF waterIndices(bs) = <<>>
    THEN [g EXCEPT !.waterCollider = Clear(@),
                   !.solidCollider = Clear(@),
                   !.reads = {}, !.mapReads = {}]
    ELSE LET w == InsertAll(Clear(g.waterCollider), bs, waterIndices(bs))
             sc == InsertAll(Clear(g.solidCollider), bs, solidIndices(bs))
             m == IndexMap(waterIndices(bs))
         IN  [g EXCEPT !.waterCollider = w,
                       !.solidCollider = sc,
                       !.waterIndexMap = m,
                       !.reads = GridReads("water", w, w, bs, waterIndices(bs))
                                 \cup GridReads("solid", sc, w, bs, waterIndices(bs)),
                       !.mapReads = MapReads(m, w, bs, waterIndices(bs))]

\* applyGasForces, lines 996-1096
GasGrids(g, bs) ==
    IF gasIndices(bs) = <<>>
    THEN [g EXCEPT !.gasCollider = Clear(@), !.reads = {}, !.mapReads = {}]
    ELSE LET h == InsertAll(Clear(g.gasCollider), bs, gasIndices(bs))
             sc == InsertAll(Clear(g.solidCollider), bs, solidIndices(bs))
         IN  [g EXCEPT !.gasCollider = h,
                       !.solidCollider = sc,
                       !.reads = GridReads("gas", h, h, bs, gasIndices(bs))
                                 \cup (IF solidIndices(bs) = <<>> THEN {}
                                       ELSE GridReads("solid", sc, h, bs, gasIndices(bs))),
                       !.mapReads = {}]

\* Update, lines 736-751: the collision grid of one sweep
ColliderGrids(g, bs) ==
    LET c == InsertAll(Clear(g.collider), bs, Indices(Len(bs)))
    IN  [g EXCEPT !.collider = c,
                  !.reads = GridReads("collision", c, c, bs, Indices(Len(bs))),
                  !.mapReads = {}]

GridFrames == 5

\* the empty scene with clusters of one particle
GridStarts == {[balls |-> <<>>, settings |-> defaultSettings, count |-> 1]}

GridInputs ==
    {NoInput,
     [NoInput EXCEPT !.left = TRUE, !.key = 6, !.x = 506, !.y = 500],
     [NoInput EXCEPT !.left = TRUE, !.key = 4, !.x = 40, !.y = 40],
     [NoInput EXCEPT !.left = TRUE, !.key = 5, !.x = 40, !.y = 40],
     [NoInput EXCEPT !.left = TRUE, !.shift = TRUE, !.x = 506, !.y = 500],
     [NoInput EXCEPT !.left = TRUE, !.shift = TRUE, !.x = 40, !.y = 40]}

InitGrids == SceneFrom(GridStarts) /\ call = NewGrids

gridsUnchanged ==
    <<settings, showMenu, selectedOption, prevEscPressed, prevUpPressed,
      prevDownPressed, moveAttractDistance, spawnClusterCount, ballsize,
      ballSpawnTimer, currentShape, frame, input, sweeps, anyResolved>>

GridsInput ==
    /\ pc = "idle"
    /\ frame < GridFrames
    /\ \E in \in GridInputs : InputFrame(in)
    /\ frame' = frame + 1
    /\ UNCHANGED <<sweeps, anyResolved, call>>

GridsWater ==
    /\ pc = "water"
    /\ balls' = applyWaterForces(balls)
    /\ call' = WaterGrids(call, balls)
    /\ pc' = "gas"
    /\ UNCHANGED gridsUnchanged

GridsGas ==
    /\ pc = "gas"
    /\ balls' = applyGasForces(balls)
    /\ call' = GasGrids(call, balls)
    /\ pc' = AfterForces
    /\ UNCHANGED gridsUnchanged

GridsSweep ==
    /\ pc = "collide"
    /\ sweeps < maxCollisionSolves
    /\ \E r \in {Sweep(balls, settings)} :
           /\ balls' = r.balls
           /\ anyResolved' = r.anyResolved
           /\ pc' = AfterSweep(r.anyResolved)
    /\ call' = ColliderGrids(call, balls)
    /\ sweeps' = sweeps + 1
    /\ UNCHANGED <<settings, showMenu, selectedOption, prevEscPressed,
                   prevUpPressed, prevDownPressed, moveAttractDistance,
                   spawnClusterCount, ballsize, ballSpawnTimer, currentShape,
                   frame, input>>

NextGrids ==
    \/ GridsInput
    \/ Cursor
    \/ GridsWater
    \/ GridsGas
    \/ Integrate
    \/ GridsSweep
    \/ CollisionDone

SpecGrids == InitGrids /\ [][NextGrids]_vars

\* the materials of the particles a grid holds
Holds(name) ==
    CASE name = "water" -> {"water"}
      [] name = "gas" -> {"gas"}
      [] name = "solid" -> {"solid", "static"}
      [] OTHER -> {"solid", "water", "gas", "static"}

GridNamed(g, name) ==
    CASE name = "water" -> g.waterCollider
      [] name = "gas" -> g.gasCollider
      [] name = "solid" -> g.solidCollider
      [] OTHER -> g.collider

\* read r of grids g is an index of bs, of a particle of the material of its
\* grid, which this pass put into the cell it was read from
ReadValid(g, bs, r) ==
    /\ 1 <= r.index /\ r.index <= Len(bs)
    /\ bs[r.index].material \in Holds(r.grid)
    /\ cellCoordOf(GridNamed(g, r.grid), bs[r.index]) = [x |-> r.x, y |-> r.y]

MapReadValid(bs, m) ==
    /\ m.ok
    /\ 1 <= m.key /\ m.key <= Len(bs)
    /\ bs[m.key].material = "water"
    /\ m.slot + 1 <= Len(waterIndices(bs))
    /\ waterIndices(bs)[m.slot + 1] = m.key

\* C28: in every pass of every frame, after whatever spawns and deletions,
\* each index read from the collision, water, gas or solid grid is an index
\* of the particle array of that pass, of a particle of the material the
\* grid holds, put into that cell by this pass; and each lookup of
\* waterIndexMap finds the place of a water particle in waterIndices.
C28_GridReadsCurrent ==
    [][(pc \in {"water", "gas", "collide"})
        => (/\ \A r \in call'.reads : ReadValid(call', balls, r)
            /\ \A m \in call'.mapReads : MapReadValid(balls, m))]_vars

\* a water pass after a deletion lowered the index of a water particle: the
\* bucket that held index 2 in an earlier frame is read and holds index 1
C28_Witness ==
    /\ pc = "gas" /\ frame = 5
    /\ input.left /\ input.shift
    /\ Len(balls) = 1 /\ balls[1].material = "water"
    /\ \E r \in call.reads : r.grid = "water" /\ r.index = 1

---------------------------------------------------------------------------
(* The pairwise interactions of two mobile particles as functions of the pair *)

MomentumMaterials ==
    {<<"solid", "solid">>, <<"solid", "water">>, <<"water", "water">>, <<"gas", "gas">>}

MomentumOffsets == {<<9000, 12000>>, <<5000, 0>>, <<0, 4000>>, <<-6000, 8000>>}

MomentumRadii == {5 * Unit, 10 * Unit}

MomentumArgs ==
    {[fn |-> "momentum", done |-> FALSE,
      b1 |-> [pos |-> createPos(500 * Unit, 500 * Unit),
              velocity |-> [vx |-> v1[1], vy |-> v1[2]],
              radius |-> r1, shape |-> "circle", material |-> m[1]],
      b2 |-> [pos |-> createPos(500 * Unit + d[1], 500 * Unit + d[2]),
              velocity |-> [vx |-> v2[1], vy |-> v2[2]],
              radius |-> r2, shape |-> "circle", material |-> m[2]],
      collisionRestitution |-> k[1], friction |-> k[2]] :
        d \in MomentumOffsets, r1 \in MomentumRadii, r2 \in MomentumRadii,
        v1 \in ResolveVelocities, v2 \in ResolveVelocities,
        m \in MomentumMaterials, k \in ResolveCoefficients}

InitMomentum == NewGame /\ call \in MomentumArgs

\* the pair after the pair force of its fluid (lines 905-945, 1052-1082),
\* as it is when the pair is not of that fluid
FluidPair(a, b, fluid) ==
    IF a.material # fluid \/ b.material # fluid THEN <<a, b>>
    ELSE IF fluid = "water" THEN WaterPair(<<a, b>>, WaterGrid(<<a, b>>), 1, 2)
    ELSE GasPair(<<a, b>>, 1, 2)

MomentumCall ==
    /\ call.fn = "momentum" /\ ~call.done
    /\ call' = [call EXCEPT !.done = TRUE] @@
               [out |-> [resolve |-> resolveCollisionCustom(call.b1, call.b2,
                                         call.collisionRestitution, call.friction),
                         water |-> FluidPair(call.b1, call.b2, "water"),
                         gas |-> FluidPair(call.b1, call.b2, "gas")]]
    /\ UNCHANGED gameVars

SpecMomentum == InitMomentum /\ [][MomentumCall]_vars

MomentumDone == call.fn = "momentum" /\ call.done

\* the two velocities of a and b sum to those of c and d
SameTotal(a, b, c, d) ==
    /\ a.velocity.vx + b.velocity.vx = c.velocity.vx + d.velocity.vx
    /\ a.velocity.vy + b.velocity.vy = c.velocity.vy + d.velocity.vy

\* C29: one call of resolveCollisionCustom on two mobile particles, one
\* water-water pair force and one gas-gas pair force each leave vx1 + vx2
\* and vy1 + vy2 as they were.
C29_TotalVelocityKept ==
    MomentumDone
    => (/\ SameTotal(call.out.resolve.b1, call.out.resolve.b2, call.b1, call.b2)
        /\ SameTotal(call.out.water[1], call.out.water[2], call.b1, call.b2)
        /\ SameTotal(call.out.gas[1], call.out.gas[2], call.b1, call.b2))

\* a water pair whose velocities both the collision call (impulse and
\* friction) and the water pair force changed
C29_Witness ==
    /\ MomentumDone
    /\ call.b1.material = "water" /\ call.b2.material = "water"
    /\ call.friction # 0
    /\ call.out.resolve.b1.velocity # call.b1.velocity
    /\ call.out.water[1].velocity # call.b1.velocity
    /\ call.out.water[2].velocity # call.b2.velocity

\* a gas pair whose velocities the gas pair force changed
C29_WitnessGas ==
    /\ MomentumDone
    /\ call.b1.material = "gas"
    /\ call.out.gas[1].velocity # call.b1.velocity

---------------------------------------------------------------------------
(* The boundary clamps of the Integrator *)

\* ball b as the Integrator has it before each clamp (lines 692-705, 707-714,
\* 716-720, 722-725)
BeforeTop(b, st) == Advanced(b, Accelerated(b.velocity, st))

BeforeFloor(b, st) == TopBarrier(BeforeTop(b, st), st)

BeforeLeft(b, st) == Floor(BeforeFloor(b, st), st)

BeforeRight(b, st) == LeftWall(BeforeLeft(b, st), st)

TopClamped(b, st) ==
    st.hasTopBarrier /\ BeforeTop(b, st).pos.y - b.radius < screenPadding

FloorClamped(b, st) == BeforeFloor(b, st).pos.y + b.radius > bottomLimit

LeftClamped(b, st) == BeforeLeft(b, st).pos.x - b.radius < 0

RightClamped(b, st) == BeforeRight(b, st).pos.x > rightLimit - b.radius

\* the velocity of b after Integrator clamps does not point into a boundary
\* that b was clamped to
ClampedAway(b, st, after) ==
    /\ FloorClamped(b, st) => after.velocity.vy <= 0
    /\ (LeftClamped(b, st) /\ ~RightClamped(b, st)) => after.velocity.vx >= 0
    /\ RightClamped(b, st) => after.velocity.vx <= 0
    /\ (TopClamped(b, st) /\ ~FloorClamped(b, st)) => after.velocity.vy >= 0

\* C30: whenever the Integrator clamps a particle to a boundary, the
\* velocity component normal to that boundary afterwards does not point
\* into the boundary.
C30_ClampedVelocityAway ==
    [][(pc = "integrate")
        => \A i \in 1..Len(balls) :
               balls[i].material # "static"
               => ClampedAway(balls[i], settings, balls'[i])]_vars

====
